---- MODULE Spec2Model ----
\* Verification model of the device I/O core of trcc:
\*   - DeviceSenderFactory / HidSender / ScsiSender   (src/src/trcc/device_factory.py)
\*   - BulkDevice                                      (src/src/trcc/device_bulk.py)
EXTENDS Integers, Sequences, FiniteSets, TLC

\* ---------------------------------------------------------------------------
\* Bounds of the model (not program constants)
\* ---------------------------------------------------------------------------
\* number of sender objects one run of the factory creates
MaxSenders == 2

\* Python's None for object references (object ids start at 1)
None == 0

VARIABLES
    senders,     \* DeviceSenderFactory._senders: dict in insertion order, <<[key, sender]>>
    obj,         \* heap of DeviceSender objects, indexed by object id
    transports,  \* heap of USB transport objects created by HidSender._create_transport
    backend,     \* hid_device.PYUSB_AVAILABLE / HIDAPI_AVAILABLE, fixed when the module is imported
    issued,      \* ghost: <<(vid,pid,path), id>> returned by get_sender since the key's last removal
    last,        \* ghost: the last call, its arguments, its outcome and the state before it
    pc,          \* per thread: where it stands in get_sender / send
    loc,         \* per thread: the local variables of its call
    bulk,        \* the fields of one BulkDevice
    usb,         \* the USB side of that device: is its interface claimed by this process
    geometry,    \* the panel geometry pipeline of core.models, fixed for a run
    wire,        \* the writes issued on the bulk OUT endpoint of the open device, since its open
    bcall,       \* ghost: the last BulkDevice call and its outcome
    lcd,         \* the fields of one LCDDeviceImplementation
    lcall,       \* ghost: the last LCDDeviceImplementation call, its arguments and result
    tlog,        \* ghost: the open and close calls made on transports, in order
    player,      \* the fields of one media player (AbstractMediaPlayer and its subclasses)
    mcall,       \* ghost: the last media player call, the player before it and its result
    zt,          \* the last ThemeZtPlayer(path): the bytes of the file and what came of it
    theme,       \* the last use of ThemeIO: its arguments, the files written, the result
    driver,      \* the SCSI LCD driver: its initialized flag and the commands it issued
    cast,        \* one PipeWireScreenCast, its threads and the portal, loops, pipelines and fds around it
    web          \* the preview downloads of one UCThemeWeb panel: its cancel events and worker threads

factoryVars == <<senders, obj, transports, backend, issued, last>>
threadVars == <<pc, loc>>
bulkVars == <<bulk, usb, geometry, wire, bcall>>
lcdVars == <<lcd, lcall>>
playerVars == <<player, mcall>>
guiVars == <<cast, web>>
fileVars == <<zt, theme, driver, guiVars>>
restVars == <<lcdVars, tlog, playerVars, fileVars>>
vars == <<factoryVars, threadVars, bulkVars, restVars>>

\* ---------------------------------------------------------------------------
\* Device descriptors handed to the factory
\* ---------------------------------------------------------------------------
Protocols == {"scsi", "hid", "bulk", "led_hid"}

DeviceInfo(vid, pid, path, proto, device_type) ==
    [vid |-> vid, pid |-> pid, path |-> path, protocol |-> proto,
     device_type |-> device_type]

\* BareDevice of the tests: an object with no protocol and no device_type attribute
BareDevice == [vid |-> 34765, pid |-> 28891, path |-> "/dev/sg1"]

\* 0x87CD:0x70DB is the SCSI LCD of the tests, 0x0416:0x530A their HID LCD;
\* "bluetooth" is the protocol of test_unknown_protocol_raises
Descriptors ==
    {DeviceInfo(34765, 28891, "/dev/sg0", pr, 1) : pr \in {"scsi", "hid"}}
    \cup {DeviceInfo(1046, 21258, "hid:0416:530a", pr, 2) : pr \in Protocols}
    \cup {DeviceInfo(1046, 21258, "hid:0416:530a", "bluetooth", 2)}
    \cup {BareDevice}

\* getattr(o, name, default)
getattr(o, name, default) == IF name \in DOMAIN o THEN o[name] ELSE default

\* The (vid, pid, path) identity of a descriptor, as the claims name it
Triple(d) == <<getattr(d, "vid", 0), getattr(d, "pid", 0), getattr(d, "path", "")>>

\* ---------------------------------------------------------------------------
\* Key formatting: f"{vid:04x}_{pid:04x}_{path}"
\* ---------------------------------------------------------------------------
HexDigit == <<"0", "1", "2", "3", "4", "5", "6", "7",
              "8", "9", "a", "b", "c", "d", "e", "f">>

RECURSIVE Hex(_)
Hex(n) == IF n < 16 THEN HexDigit[n + 1]
          ELSE Hex(n \div 16) \o HexDigit[(n % 16) + 1]

\* format(n, "04x"): lowercase hex, zero padded to at least four digits
Fmt04x(n) ==
    IF n < 16 THEN "000" \o Hex(n)
    ELSE IF n < 256 THEN "00" \o Hex(n)
    ELSE IF n < 4096 THEN "0" \o Hex(n)
    ELSE Hex(n)

\* faulty variant: the path is left out of the key
DeviceKeyNoPath(d) ==
    Fmt04x(getattr(d, "vid", 0)) \o "_" \o Fmt04x(getattr(d, "pid", 0)) \o "_"

_device_key(d) ==
    Fmt04x(getattr(d, "vid", 0)) \o "_" \o Fmt04x(getattr(d, "pid", 0))
        \o "_" \o getattr(d, "path", "")

\* ---------------------------------------------------------------------------
\* dict helpers over the insertion-ordered cache
\* ---------------------------------------------------------------------------
Keys(c) == {c[i].key : i \in 1..Len(c)}
Values(c) == {c[i].sender : i \in 1..Len(c)}
Lookup(c, k) == (CHOOSE i \in 1..Len(c) : c[i].key = k)
Get(c, k) == c[Lookup(c, k)].sender
Pop(c, k) == SelectSeq(c, LAMBDA e : e.key # k)

\* DeviceSenderFactory.get_cached_count
get_cached_count == Len(senders)

\* ---------------------------------------------------------------------------
\* Sender objects
\* ---------------------------------------------------------------------------
ScsiSender(path) ==
    [cls |-> "ScsiSender", path |-> path, vid |-> 0, pid |-> 0, device_type |-> 0,
     transport |-> None, closeCalls |-> 0, forTriple |-> <<0, 0, "">>]

HidSender(vid, pid, device_type) ==
    [cls |-> "HidSender", path |-> "", vid |-> vid, pid |-> pid,
     device_type |-> device_type, transport |-> None, closeCalls |-> 0,
     forTriple |-> <<0, 0, "">>]

\* the protocol property of ScsiSender and HidSender
protocol(s) == IF s.cls = "ScsiSender" THEN "scsi" ELSE "hid"

\* DeviceSenderFactory.create_sender: the new object, or the exception raised
create_sender(d) ==
    LET p == getattr(d, "protocol", "scsi") IN
    IF p = "scsi" THEN [exc |-> "", new |-> ScsiSender(d.path)]
    ELSE IF p = "hid"
        THEN [exc |-> "", new |-> HidSender(d.vid, d.pid, getattr(d, "device_type", 2))]
    ELSE [exc |-> "ValueError", new |-> ScsiSender("")]

\* USB backends HidSender._create_transport can find installed
Backends == {"pyusb", "hidapi", "none"}

\* HidSender._create_transport: the class of the transport built, or ImportError
_create_transport(avail) ==
    IF avail = "pyusb" THEN [exc |-> "", cls |-> "PyUsbTransport"]
    ELSE IF avail = "hidapi" THEN [exc |-> "", cls |-> "HidApiTransport"]
    ELSE [exc |-> "ImportError", cls |-> ""]

\* a transport object: its class, whether the device is open through it, and the open
\* and close calls it has received; ok: the call returned, ~ok: it raised
Transport(cls) == [cls |-> cls, state |-> "created", calls |-> <<>>]
TransportOpen(tr, ok) ==
    [tr EXCEPT !.state = IF ok THEN "open" ELSE @, !.calls = Append(@, "open")]
TransportClose(tr, ok) ==
    [tr EXCEPT !.state = IF ok THEN "closed" ELSE @, !.calls = Append(@, "close")]

\* A call's outcome on the heaps: what it returns or raises, and the heaps after it
Outcome(o, t, exc, ok) == [obj |-> o, transports |-> t, exc |-> exc, ok |-> ok]

\* ScsiSender.send: one sg_raw subprocess per call, nothing kept open;
\* result is what send_image_to_device returns
ScsiSend(o, t, sid, result) == Outcome(o, t, "", result)

\* HidSender.send on sender sid.  backend: the USB backend installed; openOk: whether
\* transport.open() succeeds; result: what send_image_to_hid_device returns
HidSend(o, t, sid, avail, openOk, result) ==
    IF o[sid].transport = None THEN
        LET c == _create_transport(avail)
            tid == Len(t) + 1
            o1 == [o EXCEPT ![sid].transport = tid]
        IN
        IF c.exc # "" THEN Outcome(o, t, c.exc, FALSE)
        ELSE IF ~openOk
            THEN Outcome(o1, Append(t, TransportOpen(Transport(c.cls), FALSE)),
                         "TransportOpenFailed", FALSE)
        ELSE Outcome(o1, Append(t, TransportOpen(Transport(c.cls), TRUE)), "", result)
    ELSE Outcome(o, t, "", result)

\* DeviceSender.send, dispatched on the class of the sender
SenderSend(o, t, sid, avail, openOk, result) ==
    IF o[sid].cls = "ScsiSender" THEN ScsiSend(o, t, sid, result)
    ELSE HidSend(o, t, sid, avail, openOk, result)

\* ScsiSender.close: nothing to release
ScsiClose(o, t, sid) ==
    Outcome([o EXCEPT ![sid].closeCalls = @ + 1], t, "", TRUE)

\* faulty variant: the transport is closed but the sender keeps it
HidCloseKeepsTransport(o, t, sid, raises) ==
    IF o[sid].transport # None THEN
        Outcome([o EXCEPT ![sid].closeCalls = @ + 1],
                [t EXCEPT ![o[sid].transport] = TransportClose(@, ~raises)],
                "", TRUE)
    ELSE Outcome([o EXCEPT ![sid].closeCalls = @ + 1], t, "", TRUE)

\* HidSender.close; raises: whether transport.close() raises (swallowed)
HidClose(o, t, sid, raises) ==
    IF o[sid].transport # None THEN
        Outcome([o EXCEPT ![sid].transport = None, ![sid].closeCalls = @ + 1],
                [t EXCEPT ![o[sid].transport] = TransportClose(@, ~raises)],
                "", TRUE)
    ELSE Outcome([o EXCEPT ![sid].closeCalls = @ + 1], t, "", TRUE)

\* DeviceSender.close, dispatched on the class of the sender
SenderClose(o, t, sid, raises) ==
    IF o[sid].cls = "ScsiSender" THEN ScsiClose(o, t, sid)
    ELSE HidClose(o, t, sid, raises)

NoCall == [op |-> "init", d |-> BareDevice, sid |-> None, ret |-> None, exc |-> "",
           ok |-> FALSE, before |-> <<>>, objBefore |-> <<>>, trBefore |-> <<>>,
           closeErr |-> {}]

\* the record of a call made in the current state
Call(op) == [NoCall EXCEPT !.op = op, !.before = senders, !.objBefore = obj,
                           !.trBefore = transports]

FactoryInit ==
    /\ senders = <<>>
    /\ obj = <<>>
    /\ transports = <<>>
    /\ issued = {}
    /\ last = NoCall

\* ---------------------------------------------------------------------------
\* DeviceSenderFactory.get_sender
\* ---------------------------------------------------------------------------
GetSender(d) ==
    LET key == _device_key(d)
        c == create_sender(d)
    IN
    /\ UNCHANGED <<threadVars, bulkVars, restVars>>
    /\ IF key \in Keys(senders) THEN
           /\ UNCHANGED <<senders, obj, transports, backend>>
           /\ issued' = issued \cup {<<Triple(d), Get(senders, key)>>}
           /\ last' = [Call("get_sender") EXCEPT !.d = d, !.ret = Get(senders, key)]
       ELSE IF c.exc # "" THEN
           /\ UNCHANGED <<senders, obj, transports, backend, issued>>
           /\ last' = [Call("get_sender") EXCEPT !.d = d, !.exc = c.exc]
       ELSE
           /\ Len(obj) < MaxSenders
           /\ obj' = Append(obj, [c.new EXCEPT !.forTriple = Triple(d)])
           /\ senders' = Append(senders, [key |-> key, sender |-> Len(obj) + 1])
           /\ UNCHANGED <<transports, backend>>
           /\ issued' = issued \cup {<<Triple(d), Get(senders', key)>>}
           /\ last' = [Call("get_sender") EXCEPT !.d = d, !.ret = Get(senders', key)]

\* ---------------------------------------------------------------------------
\* DeviceSenderFactory.remove_sender
\* ---------------------------------------------------------------------------
\* faulty variant: the sender is popped from the cache but never closed
RemoveSenderNoClose(d, raises) ==
    LET key == _device_key(d) IN
    /\ UNCHANGED <<threadVars, bulkVars, restVars>>
    /\ senders' = Pop(senders, key)
    /\ UNCHANGED <<obj, transports, backend>>
    /\ issued' = {p \in issued : p[1] # Triple(d)}
    /\ last' = [Call("remove_sender") EXCEPT !.d = d,
                    !.sid = IF key \in Keys(senders) THEN Get(senders, key) ELSE None]

RemoveSender(d, raises) ==
    LET key == _device_key(d) IN
    /\ UNCHANGED <<threadVars, bulkVars, restVars>>
    /\ IF key \in Keys(senders) THEN
           LET sid == Get(senders, key)
               r == SenderClose(obj, transports, sid, raises)
           IN
           /\ senders' = Pop(senders, key)
           /\ obj' = r.obj
           /\ transports' = r.transports
           /\ issued' = {p \in issued : p[1] # Triple(d)}
           /\ UNCHANGED backend
           /\ last' = [Call("remove_sender") EXCEPT !.d = d, !.sid = sid,
                           !.closeErr = IF raises /\ obj[sid].transport # None
                                        THEN {sid} ELSE {}]
       ELSE
           /\ UNCHANGED <<senders, obj, transports, backend, issued>>
           /\ last' = [Call("remove_sender") EXCEPT !.d = d]

\* ---------------------------------------------------------------------------
\* DeviceSenderFactory.close_all
\* ---------------------------------------------------------------------------
\* the loop of close_all over the cached senders, in dict order; R: the senders whose
\* transport.close() raises.  An exception leaving sender.close() is swallowed.
RECURSIVE CloseEach(_, _, _, _)
CloseEach(c, o, t, R) ==
    IF c = <<>> THEN Outcome(o, t, "", TRUE)
    ELSE LET r == SenderClose(o, t, Head(c).sender, Head(c).sender \in R)
         IN CloseEach(Tail(c), r.obj, r.transports, R)

\* faulty variant: the cache is not cleared after the senders are closed
CloseAllNoClear(R) ==
    LET r == CloseEach(senders, obj, transports, R) IN
    /\ UNCHANGED <<threadVars, bulkVars, restVars>>
    /\ UNCHANGED senders
    /\ obj' = r.obj
    /\ transports' = r.transports
    /\ issued' = {}
    /\ UNCHANGED backend
    /\ last' = [Call("close_all") EXCEPT
                    !.closeErr = {s \in Values(senders) \cap R : obj[s].transport # None}]

CloseAll(R) ==
    LET r == CloseEach(senders, obj, transports, R) IN
    /\ UNCHANGED <<threadVars, bulkVars, restVars>>
    /\ senders' = <<>>
    /\ obj' = r.obj
    /\ transports' = r.transports
    /\ issued' = {}
    /\ UNCHANGED backend
    /\ last' = [Call("close_all") EXCEPT
                    !.closeErr = {s \in Values(senders) \cap R : obj[s].transport # None}]

\* ---------------------------------------------------------------------------
\* sender.send(...) on a cached sender, as DeviceSenderFactory.get_sender(d).send(...)
\* ---------------------------------------------------------------------------
Send(sid, openOk, result) ==
    LET r == SenderSend(obj, transports, sid, backend, openOk, result) IN
    /\ UNCHANGED <<threadVars, bulkVars, restVars>>
    /\ obj' = r.obj
    /\ transports' = r.transports
    /\ UNCHANGED <<senders, backend, issued>>
    /\ last' = [Call("send") EXCEPT !.sid = sid, !.exc = r.exc, !.ok = r.ok]

Next ==
    \/ \E d \in Descriptors : GetSender(d)
    \/ \E d \in Descriptors, raises \in BOOLEAN : RemoveSender(d, raises)
    \/ \E R \in SUBSET Values(senders) : CloseAll(R)
    \/ \E sid \in Values(senders), openOk \in BOOLEAN, result \in BOOLEAN :
          Send(sid, openOk, result)

\* ===========================================================================
\* One HidSender used on its own: send and close in any order
\* ===========================================================================
\* close() calls after which no further close is made
MaxHidCloses == 3

\* the open and close calls that a step added to the transports, as <<tid, call>>
RECURSIVE NewCalls(_, _, _)
NewCalls(before, after, tid) ==
    IF tid > Len(after) THEN <<>>
    ELSE LET seen == IF tid <= Len(before) THEN Len(before[tid].calls) ELSE 0
             calls == after[tid].calls
         IN [i \in 1..(Len(calls) - seen) |-> [tid |-> tid, call |-> calls[seen + i]]]
                \o NewCalls(before, after, tid + 1)

HidFrame ==
    UNCHANGED <<senders, backend, issued, threadVars, bulkVars, lcdVars, playerVars, fileVars>>

\* s.send(image_data, width, height) on the sender
HSend(openOk, result) ==
    LET r == HidSend(obj, transports, 1, backend, openOk, result) IN
    /\ obj' = r.obj
    /\ transports' = r.transports
    /\ tlog' = tlog \o NewCalls(transports, r.transports, 1)
    /\ last' = [Call("send") EXCEPT !.sid = 1, !.exc = r.exc, !.ok = r.ok]
    /\ HidFrame

\* s.close() on the sender
HClose(raises) ==
    LET r == HidClose(obj, transports, 1, raises) IN
    /\ obj[1].closeCalls < MaxHidCloses
    /\ obj' = r.obj
    /\ transports' = r.transports
    /\ tlog' = tlog \o NewCalls(transports, r.transports, 1)
    /\ last' = [Call("close") EXCEPT !.sid = 1,
                    !.closeErr = IF raises /\ obj[1].transport # None THEN {1} ELSE {}]
    /\ HidFrame

HidNext ==
    \/ \E openOk \in BOOLEAN, result \in BOOLEAN : HSend(openOk, result)
    \/ \E raises \in BOOLEAN : HClose(raises)

\* ===========================================================================
\* BulkDevice (device_bulk.py)
\* ===========================================================================
\* writes on the wire after which no further call is started
MaxWire == 4

_WRITE_CHUNK_SIZE == 16384

Min(a, b) == IF a < b THEN a ELSE b

Zeros(k) == [i \in 1..k |-> 0]

\* faulty variant: the value is packed as two 16-bit halves, high half first
PackLE32Halves(v) ==
    <<(v \div 65536) % 256, (v \div 16777216) % 256, v % 256, (v \div 256) % 256>>

\* faulty variant: the value is packed most significant byte first
PackBE32(v) ==
    <<(v \div 16777216) % 256, (v \div 65536) % 256, (v \div 256) % 256, v % 256>>

\* struct.pack("<I", v)
PackLE32(v) ==
    <<v % 256, (v \div 256) % 256, (v \div 65536) % 256, (v \div 16777216) % 256>>

\* struct.unpack_from("<I", h, off)
UnpackLE32(h, off) ==
    h[off + 1] + 256 * h[off + 2] + 65536 * h[off + 3] + 16777216 * h[off + 4]

\* the 64-byte handshake probe: 12 34 56 78, zeros, byte 56 = 1
_HANDSHAKE_PAYLOAD == <<18, 52, 86, 120>> \o Zeros(52) \o <<1, 0, 0, 0>> \o Zeros(4)

\* faulty variant: no PM selects raw RGB565
NoRgb565Pms == {}

_BULK_KNOWN_PMS == {5, 7, 9, 10, 11, 12, 32, 64, 65}
_BULK_RGB565_PMS == {32}

\* faulty variant: PM 1 is never looked up, whatever its SUB
KnownPairNoSub(pm, sub) == pm \in _BULK_KNOWN_PMS

\* the (PM, SUB) pairs that go through the shared pm_to_fbl / fbl_to_resolution pipeline
KnownPair(pm, sub) == pm \in _BULK_KNOWN_PMS \/ (pm = 1 /\ sub \in {48, 49})

\* core.models.pm_to_fbl and fbl_to_resolution: tables of the run
pm_to_fbl(pm, sub) == geometry.fbl[<<pm, sub>>]
fbl_to_resolution(fbl, pm) == geometry.res[<<fbl, pm>>]

_bulk_resolution(pm, sub) ==
    IF KnownPair(pm, sub) THEN fbl_to_resolution(pm_to_fbl(pm, sub), pm)
    ELSE <<480, 480>>

\* A handshake response: its length and the two bytes the handler reads
Resp(len, b24, b36) == [len |-> len, b24 |-> b24, b36 |-> b36]

Responses ==
    {Resp(40, 5, 0), Resp(1024, 0, 0), Resp(1024, 5, 0), Resp(1024, 32, 0),
     Resp(1024, 50, 0), Resp(1024, 1, 48), Resp(1024, 1, 0)}

\* the inputs of the known pairs among Responses, and the tables a run may have
KnownInputs == {<<5, 0>>, <<32, 0>>, <<1, 48>>}
GeometryTables ==
    {[fbl |-> [x \in KnownInputs |-> 50 + x[1]],
      res |-> [y \in {<<50 + x[1], x[1]>> : x \in KnownInputs} |-> r]] :
        r \in {<<240, 320>>, <<320, 320>>}}

\* HandshakeResult of device_base.py; resolution <<>> stands for None
HandshakeResult(resolution, model_id, raw) ==
    [resolution |-> resolution, model_id |-> model_id, serial |-> "",
     raw_response |-> raw]

NoResult == HandshakeResult(<<>>, 0, Resp(0, 0, 0))

\* BulkDevice.__init__
NewBulkDevice ==
    [_dev |-> None, _ep_out |-> None, _ep_in |-> None, pm |-> 0, sub_type |-> 0,
     width |-> 0, height |-> 0, use_jpeg |-> TRUE, _raw_handshake |-> Resp(0, 0, 0)]

\* one write call on the OUT endpoint: literal bytes, or the slice [off, off+len) of
\* the frame's payload; frame numbers the send_frame call (0: handshake); ok: the
\* call returned, ~ok: it raised
BytesWrite(frame, bytes, ok) ==
    [frame |-> frame, kind |-> "bytes", bytes |-> bytes, off |-> 0,
     len |-> Len(bytes), ok |-> ok]
SliceWrite(frame, off, len, ok) ==
    [frame |-> frame, kind |-> "slice", bytes |-> <<>>, off |-> off, len |-> len,
     ok |-> ok]

\* what a BulkDevice method leaves behind and how it ends
BulkOutcome(b, u, w, exc, result, opened) ==
    [bulk |-> b, usb |-> u, wire |-> w, exc |-> exc, result |-> result,
     opened |-> opened]

OpenOutcomes == {"ok", "not_found", "usb_error", "no_ep", "no_ep_out", "no_ep_in"}

\* BulkDevice._open; how: what the USB stack finds.  usb_error: usb.core.find,
\* set_configuration or claim_interface raises before anything is assigned; no_ep,
\* no_ep_out, no_ep_in: find_descriptor returns None for both bulk endpoints, for the
\* OUT one, for the IN one, each after claim_interface and each stored before the test
_open(b, u, w, how) ==
    IF how = "not_found" THEN BulkOutcome(b, u, w, "RuntimeError", NoResult, FALSE)
    ELSE IF how = "usb_error" THEN BulkOutcome(b, u, w, "USBError", NoResult, FALSE)
    ELSE IF how = "no_ep"
        THEN BulkOutcome([b EXCEPT !._ep_out = None, !._ep_in = None],
                         [u EXCEPT !.claimed = TRUE], w, "RuntimeError", NoResult, FALSE)
    ELSE IF how = "no_ep_out"
        THEN BulkOutcome([b EXCEPT !._ep_out = None, !._ep_in = 1],
                         [u EXCEPT !.claimed = TRUE], w, "RuntimeError", NoResult, FALSE)
    ELSE IF how = "no_ep_in"
        THEN BulkOutcome([b EXCEPT !._ep_out = 1, !._ep_in = None],
                         [u EXCEPT !.claimed = TRUE], w, "RuntimeError", NoResult, FALSE)
    ELSE BulkOutcome([b EXCEPT !._ep_out = 1, !._ep_in = 1, !._dev = 1],
                     [u EXCEPT !.claimed = TRUE], <<>>, "", NoResult, TRUE)

\* faulty variant: PM, SUB and the resolution are taken from the response before it is
\* validated
HandshakeAssignsFirst(b, u, w, how, writeOk, readOk, resp) ==
    LET o == IF b._dev = None THEN _open(b, u, w, how)
             ELSE BulkOutcome(b, u, w, "", NoResult, FALSE)
        w1 == Append(o.wire, BytesWrite(0, _HANDSHAKE_PAYLOAD, writeOk))
        resolution == _bulk_resolution(resp.b24, resp.b36)
        b1 == [o.bulk EXCEPT !._raw_handshake = resp, !.pm = resp.b24,
                             !.sub_type = resp.b36,
                             !.use_jpeg = resp.b24 \notin _BULK_RGB565_PMS,
                             !.width = resolution[1], !.height = resolution[2]]
    IN
    IF o.exc # "" THEN o
    ELSE IF ~writeOk THEN BulkOutcome(o.bulk, o.usb, w1, "USBError", NoResult, o.opened)
    ELSE IF ~readOk THEN BulkOutcome(o.bulk, o.usb, w1, "USBError", NoResult, o.opened)
    ELSE IF resp.len < 41 \/ resp.b24 = 0
        THEN BulkOutcome(b1, o.usb, w1, "", HandshakeResult(<<>>, 0, resp), o.opened)
    ELSE BulkOutcome(b1, o.usb, w1, "", HandshakeResult(resolution, resp.b24, resp),
                     o.opened)

\* BulkDevice.handshake; how: the outcome of _open when the device is not open;
\* writeOk, readOk: whether the endpoint write and read return; resp: the bytes read
handshake(b, u, w, how, writeOk, readOk, resp) ==
    LET o == IF b._dev = None THEN _open(b, u, w, how)
             ELSE BulkOutcome(b, u, w, "", NoResult, FALSE)
        w1 == Append(o.wire, BytesWrite(0, _HANDSHAKE_PAYLOAD, writeOk))
        b1 == [o.bulk EXCEPT !._raw_handshake = resp]
        resolution == _bulk_resolution(resp.b24, resp.b36)
    IN
    IF o.exc # "" THEN o
    ELSE IF ~writeOk THEN BulkOutcome(o.bulk, o.usb, w1, "USBError", NoResult, o.opened)
    ELSE IF ~readOk THEN BulkOutcome(o.bulk, o.usb, w1, "USBError", NoResult, o.opened)
    ELSE IF resp.len < 41 \/ resp.b24 = 0
        THEN BulkOutcome(b1, o.usb, w1, "", HandshakeResult(<<>>, 0, resp), o.opened)
    ELSE BulkOutcome(
            [b1 EXCEPT !.pm = resp.b24, !.sub_type = resp.b36,
                       !.use_jpeg = resp.b24 \notin _BULK_RGB565_PMS,
                       !.width = resolution[1], !.height = resolution[2]],
            o.usb, w1, "", HandshakeResult(resolution, resp.b24, resp), o.opened)

\* the 64-byte frame header
FrameHeader(cmd, width, height, data_size) ==
    SubSeq(_HANDSHAKE_PAYLOAD, 1, 4) \o PackLE32(cmd) \o PackLE32(width)
        \o PackLE32(height) \o Zeros(40) \o PackLE32(2) \o PackLE32(data_size)

\* faulty variant: every payload write is a full 16 KiB, the last one too
ChunkWritesUnclamped(frame, data_size, offset) ==
    [i \in 1..((data_size + _WRITE_CHUNK_SIZE - 1) \div _WRITE_CHUNK_SIZE) |->
        SliceWrite(frame, (i - 1) * _WRITE_CHUNK_SIZE, _WRITE_CHUNK_SIZE, TRUE)]

\* the payload loop: image_data[offset : offset + _WRITE_CHUNK_SIZE] until offset
\* reaches data_size
RECURSIVE ChunkWrites(_, _, _)
ChunkWrites(frame, data_size, offset) ==
    IF offset < data_size
    THEN LET len == Min(_WRITE_CHUNK_SIZE, data_size - offset) IN
         <<SliceWrite(frame, offset, len, TRUE)>>
             \o ChunkWrites(frame, data_size, offset + len)
    ELSE <<>>

\* the writes of one frame when none of them raises: header, payload chunks, ZLP
FrameWrites(frame, b, data_size) ==
    <<BytesWrite(frame, FrameHeader(IF b.use_jpeg THEN 2 ELSE 3, b.width, b.height,
                                     data_size), TRUE)>>
        \o ChunkWrites(frame, data_size, 0)
        \o <<BytesWrite(frame, <<>>, TRUE)>>

\* the writes issued when the failAt-th one raises (failAt = 0 or past the last: none
\* raises): the try block is left at the first write that raises
WritesUntilFailure(ws, failAt) ==
    IF failAt = 0 \/ failAt > Len(ws) THEN ws
    ELSE [i \in 1..failAt |-> IF i = failAt THEN [ws[i] EXCEPT !.ok = FALSE] ELSE ws[i]]

\* the number send_frame calls carry on the wire
NextFrame(w) ==
    LET fs == {w[i].frame : i \in 1..Len(w)} IN
    1 + (CHOOSE m \in fs \cup {0} : \A f \in fs \cup {0} : f <= m)

\* faulty variant: a device that is not open is opened, but no handshake is made
SendFrameNoHandshake(b, u, w, data_size, failAt, how, writeOk, readOk, resp) ==
    LET h == IF b._dev = None \/ b._ep_out = None
             THEN _open(b, u, w, how)
             ELSE BulkOutcome(b, u, w, "", NoResult, FALSE)
        ws == WritesUntilFailure(FrameWrites(NextFrame(h.wire), h.bulk, data_size),
                                 failAt)
    IN
    IF h.exc # "" THEN h
    ELSE BulkOutcome(h.bulk, h.usb, h.wire \o ws, "", \A i \in 1..Len(ws) : ws[i].ok,
                     h.opened)

\* faulty variant: a write that raises tears the device down
SendFrameTearsDown(b, u, w, data_size, failAt, how, writeOk, readOk, resp) ==
    LET h == IF b._dev = None \/ b._ep_out = None
             THEN handshake(b, u, w, how, writeOk, readOk, resp)
             ELSE BulkOutcome(b, u, w, "", NoResult, FALSE)
        ws == WritesUntilFailure(FrameWrites(NextFrame(h.wire), h.bulk, data_size),
                                 failAt)
    IN
    IF h.exc # "" THEN h
    ELSE IF \A i \in 1..Len(ws) : ws[i].ok
        THEN BulkOutcome(h.bulk, h.usb, h.wire \o ws, "", TRUE, h.opened)
    ELSE BulkOutcome([h.bulk EXCEPT !._dev = None, !._ep_out = None, !._ep_in = None],
                     [h.usb EXCEPT !.claimed = FALSE], <<>>, "", FALSE, h.opened)

\* BulkDevice.send_frame; data_size = len(image_data); failAt: which write of the
\* frame raises; the other inputs are those of the handshake it makes when the device
\* is not open.  result: the bool returned
send_frame(b, u, w, data_size, failAt, how, writeOk, readOk, resp) ==
    LET h == IF b._dev = None \/ b._ep_out = None
             THEN handshake(b, u, w, how, writeOk, readOk, resp)
             ELSE BulkOutcome(b, u, w, "", NoResult, FALSE)
        ws == WritesUntilFailure(FrameWrites(NextFrame(h.wire), h.bulk, data_size),
                                 failAt)
    IN
    IF h.exc # "" THEN h
    ELSE BulkOutcome(h.bulk, h.usb, h.wire \o ws, "", \A i \in 1..Len(ws) : ws[i].ok,
                     h.opened)

\* BulkDevice.close; release_interface may raise (swallowed), dispose_resources
\* gives up everything the process holds of the device
close(b, u, w) ==
    IF b._dev # None
    THEN BulkOutcome([b EXCEPT !._dev = None, !._ep_out = None, !._ep_in = None],
                     [u EXCEPT !.claimed = FALSE], <<>>, "", NoResult, FALSE)
    ELSE BulkOutcome(b, u, w, "", NoResult, FALSE)

\* ghost record of a call: wasOpen, wireBefore: the device and the wire before it;
\* opened, handshook: whether it went through _open and through handshake;
\* failedAt: which write of its frame raised (0: none); afterFailure: whether the call
\* before it was a send_frame that a failed write ended; devBefore: the device's pm,
\* sub_type, width, height and use_jpeg before the call; synced: whether the device
\* is open and the last handshake made since it was opened succeeded
DeviceMode(b) == <<b.pm, b.sub_type, b.width, b.height, b.use_jpeg>>

NoBulkCall ==
    [op |-> "init", exc |-> "", ret |-> FALSE, result |-> NoResult, opened |-> FALSE,
     handshook |-> FALSE, data_size |-> 0, failedAt |-> 0, wasOpen |-> FALSE,
     wireBefore |-> 0, afterFailure |-> FALSE, devBefore |-> DeviceMode(NewBulkDevice),
     synced |-> FALSE]

\* a handshake that returned a result with a resolution and a model id
HandshakeOk(r) == r.exc = "" /\ r.result.model_id # 0

BulkCall(op) ==
    [NoBulkCall EXCEPT !.op = op, !.wasOpen = (bulk._dev # None),
                       !.wireBefore = Len(wire), !.devBefore = DeviceMode(bulk)]

\* a send_frame call that returned False because a write of its frame raised
WriteFailed(c) == c.op = "send_frame" /\ c.exc = "" /\ ~c.ret

BulkInit ==
    /\ bulk = NewBulkDevice
    /\ usb = [claimed |-> FALSE]
    /\ wire = <<>>
    /\ bcall = NoBulkCall

Apply(r) ==
    /\ bulk' = r.bulk
    /\ usb' = r.usb
    /\ wire' = r.wire
    /\ UNCHANGED <<geometry, factoryVars, threadVars, restVars>>

Handshake(how, writeOk, readOk, resp) ==
    LET r == handshake(bulk, usb, wire, how, writeOk, readOk, resp) IN
    /\ Len(wire) < MaxWire
    /\ Apply(r)
    /\ bcall' = [BulkCall("handshake") EXCEPT !.exc = r.exc, !.result = r.result,
                    !.opened = r.opened, !.handshook = TRUE,
                    !.synced = HandshakeOk(r)]

SendFrame(data_size, failAt, how, writeOk, readOk, resp) ==
    LET r == send_frame(bulk, usb, wire, data_size, failAt, how, writeOk, readOk, resp)
        needsHandshake == bulk._dev = None \/ bulk._ep_out = None
        begun == ~needsHandshake
                 \/ handshake(bulk, usb, wire, how, writeOk, readOk, resp).exc = ""
    IN
    /\ Len(wire) < MaxWire
    /\ Apply(r)
    /\ bcall' = [BulkCall("send_frame") EXCEPT !.exc = r.exc,
                    !.ret = (r.exc = "" /\ r.result), !.opened = r.opened,
                    !.handshook = needsHandshake,
                    !.data_size = data_size,
                    !.failedAt = IF begun THEN failAt ELSE 0,
                    !.afterFailure = WriteFailed(bcall),
                    !.synced = IF needsHandshake
                               THEN HandshakeOk(handshake(bulk, usb, wire, how, writeOk,
                                                          readOk, resp))
                               ELSE bcall.synced]

Close ==
    LET r == close(bulk, usb, wire) IN
    /\ Apply(r)
    /\ bcall' = BulkCall("close")

\* len(image_data): empty, exactly one chunk, one byte more than a chunk
PayloadSizes == {0, _WRITE_CHUNK_SIZE, _WRITE_CHUNK_SIZE + 1}

\* what a handshake can meet: the open fails; the write or the read raises; a response
\* is read.  Inputs that a call does not get to read are not varied.
OpenInputs == IF bulk._dev = None THEN OpenOutcomes ELSE {"ok"}
HandshakeInputs ==
    {<<how, FALSE, FALSE, Resp(0, 0, 0)>> : how \in OpenInputs \ {"ok"}}
    \cup {<<"ok", FALSE, FALSE, Resp(0, 0, 0)>>, <<"ok", TRUE, FALSE, Resp(0, 0, 0)>>}
    \cup {<<"ok", TRUE, TRUE, resp>> : resp \in Responses}

\* the handshake inputs of a send_frame call: read only when the device is not open
SendInputs ==
    IF bulk._dev = None \/ bulk._ep_out = None THEN HandshakeInputs
    ELSE {<<"ok", TRUE, TRUE, Resp(0, 0, 0)>>}

BulkNext ==
    \/ \E i \in HandshakeInputs : Handshake(i[1], i[2], i[3], i[4])
    \/ \E n \in PayloadSizes, i \in SendInputs :
          \E failAt \in 0..Len(FrameWrites(1, bulk, n)) :
              SendFrame(n, failAt, i[1], i[2], i[3], i[4])
    \/ Close

\* ===========================================================================
\* LCDDeviceImplementation (device_implementations.py)
\* ===========================================================================
\* Python's &, | on non-negative integers, << and >>
RECURSIVE BitAnd(_, _)
BitAnd(a, b) ==
    IF a = 0 \/ b = 0 THEN 0
    ELSE (a % 2) * (b % 2) + 2 * BitAnd(a \div 2, b \div 2)

RECURSIVE BitOr(_, _)
BitOr(a, b) ==
    IF a = 0 THEN b
    ELSE IF b = 0 THEN a
    ELSE (IF a % 2 = 1 \/ b % 2 = 1 THEN 1 ELSE 0) + 2 * BitOr(a \div 2, b \div 2)

RECURSIVE Pow2(_)
Pow2(k) == IF k = 0 THEN 1 ELSE 2 * Pow2(k - 1)

Shl(a, k) == a * Pow2(k)
Shr(a, k) == a \div Pow2(k)

\* device_scsi._get_frame_chunks: the frame of width * height * 2 bytes cut into
\* commands of at most _CHUNK_SIZE bytes, chunk i under _FRAME_CMD_BASE | (i << 24)
_CHUNK_SIZE == 65536
_FRAME_CMD_BASE == 21

RECURSIVE FrameChunksFrom(_, _, _)
FrameChunksFrom(total, offset, i) ==
    IF offset < total
    THEN LET size == Min(_CHUNK_SIZE, total - offset) IN
         <<[cmd |-> BitOr(_FRAME_CMD_BASE, Shl(i, 24)), size |-> size]>>
             \o FrameChunksFrom(total, offset + size, i + 1)
    ELSE <<>>

_get_frame_chunks(width, height) == FrameChunksFrom(width * height * 2, 0, 0)

\* _IMPL_NAMES.get(impl_key, "Generic LCD")
ImplName(impl_key) ==
    IF impl_key = "thermalright_lcd_v1" THEN "Thermalright LCD v1 (USBLCD)"
    ELSE IF impl_key = "ali_corp_lcd_v1" THEN "ALi Corp LCD v1 (USBLCD)"
    ELSE "Generic LCD"

\* LCDDeviceImplementation.__init__
LCDDeviceImplementation(impl_key) ==
    [name |-> ImplName(impl_key), width |-> 320, height |-> 320,
     pixel_format |-> "RGB565", fbl |-> None, _resolution_detected |-> FALSE]

\* the resolution property
resolution(l) == <<l.width, l.height>>

\* faulty variant: the plan is made for a square panel of the current width
GetFrameChunksSquare(l) == _get_frame_chunks(l.width, l.width)

get_frame_chunks(l) == _get_frame_chunks(l.width, l.height)

\* the pixel_byte_order property: ">" big-endian, "<" little-endian
pixel_byte_order(l) == IF resolution(l) = <<320, 320>> THEN ">" ELSE "<"

\* struct.pack(order + "H", v) for v in 0..65535
PackH(order, v) ==
    IF order = ">" THEN <<v \div 256, v % 256>> ELSE <<v % 256, v \div 256>>

\* faulty variant: green keeps five bits, as red and blue do
RgbToBytes555(l, r, g, b) ==
    PackH(pixel_byte_order(l),
          BitOr(BitOr(Shl(BitAnd(r, 248), 8), Shl(BitAnd(g, 248), 3)), Shr(b, 3)))

rgb_to_bytes(l, r, g, b) ==
    PackH(pixel_byte_order(l),
          BitOr(BitOr(Shl(BitAnd(r, 248), 8), Shl(BitAnd(g, 252), 3)), Shr(b, 3)))

\* what fbl_detector.detect_display_resolution can return: None, or the FBL read from
\* the device with the resolution it stands for
DisplayInfo(fbl, width, height) == [fbl |-> fbl, width |-> width, height |-> height]
NoDisplayInfo == DisplayInfo(None, 0, 0)
DisplayInfos ==
    {NoDisplayInfo, DisplayInfo(51, 320, 320), DisplayInfo(53, 320, 320),
     DisplayInfo(100, 320, 320), DisplayInfo(72, 480, 480), DisplayInfo(50, 240, 320),
     DisplayInfo(64, 640, 480)}

\* LCDDeviceImplementation.detect_resolution; importOk: whether fbl_detector can be
\* imported; info: what detect_display_resolution returns
detect_resolution(l, importOk, info) ==
    IF ~importOk THEN [lcd |-> l, ret |-> FALSE]
    ELSE IF info # NoDisplayInfo
        THEN [lcd |-> [l EXCEPT !.width = info.width, !.height = info.height,
                                !.fbl = info.fbl, !._resolution_detected = TRUE],
              ret |-> TRUE]
    ELSE [lcd |-> l, ret |-> FALSE]

\* LCDDeviceImplementation.set_resolution
set_resolution(l, width, height) ==
    [l EXCEPT !.width = width, !.height = height, !._resolution_detected = TRUE]

\* ghost record of a call
NoLcdCall ==
    [op |-> "init", args |-> <<>>, ret |-> <<>>, ok |-> FALSE]

LcdInit ==
    /\ lcd = LCDDeviceImplementation("generic")
    /\ lcall = NoLcdCall

LcdFrame == UNCHANGED <<factoryVars, threadVars, bulkVars, tlog, playerVars, fileVars>>

SetResolution(width, height) ==
    /\ lcd' = set_resolution(lcd, width, height)
    /\ lcall' = [NoLcdCall EXCEPT !.op = "set_resolution", !.args = <<width, height>>]
    /\ LcdFrame

DetectResolution(importOk, info) ==
    LET r == detect_resolution(lcd, importOk, info) IN
    /\ lcd' = r.lcd
    /\ lcall' = [NoLcdCall EXCEPT !.op = "detect_resolution", !.ok = r.ret]
    /\ LcdFrame

RgbToBytes(r, g, b) ==
    /\ lcall' = [NoLcdCall EXCEPT !.op = "rgb_to_bytes", !.args = <<r, g, b>>,
                                  !.ret = rgb_to_bytes(lcd, r, g, b)]
    /\ UNCHANGED lcd
    /\ LcdFrame

GetFrameChunks ==
    /\ lcall' = [NoLcdCall EXCEPT !.op = "get_frame_chunks",
                                  !.ret = get_frame_chunks(lcd)]
    /\ UNCHANGED lcd
    /\ LcdFrame

\* the resolutions set by hand (set_resolution accepts any width and height:
\* those of the supported panels, 1024x512 whose frame fills sixteen chunks, and
\* 1024x600 whose frame does not fit in sixteen), and the colour levels converted
Resolutions == {<<240, 240>>, <<320, 240>>, <<320, 320>>, <<480, 480>>, <<640, 480>>,
                <<1024, 512>>, <<1024, 600>>}
Levels == {0, 7, 8, 128, 251, 255}

LcdNext ==
    \/ \E wh \in Resolutions : SetResolution(wh[1], wh[2])
    \/ \E importOk \in BOOLEAN, info \in DisplayInfos : DetectResolution(importOk, info)
    \/ \E r, g, b \in Levels : RgbToBytes(r, g, b)
    \/ GetFrameChunks

\* ===========================================================================
\* Media players (media_player.py, gif_animator.py)
\* ===========================================================================
\* frames of the longest animation loaded
MaxFrames == 3

\* frames of an animation long enough that the float product of seek falls below
\* the exact one (0.58 * 50 is 28.999999999999996)
LongAnimation == 51

PlayerClasses == {"VideoPlayer", "ThemeZtPlayer"}

\* a player as its constructor leaves it after loading n frames: AbstractMediaPlayer
\* .__init__, then frames filled and frame_count = len(self.frames); frames are named
\* by their position in the file.  A VideoPlayer has fps = 16; a ThemeZtPlayer has
\* one delay per frame, here those of timestamps 40 ms apart (42 for a single frame).
LoadedPlayer(cls, n) ==
    [cls |-> cls, frames |-> [i \in 1..n |-> i], frame_count |-> n,
     current_frame |-> 0, playing |-> FALSE, loop |-> TRUE,
     fps |-> 16,
     delays |-> IF cls = "ThemeZtPlayer" THEN [i \in 1..n |-> IF n = 1 THEN 42 ELSE 40]
                ELSE <<>>]

play(m) == [m EXCEPT !.playing = TRUE]
pause(m) == [m EXCEPT !.playing = FALSE]
stop(m) == [m EXCEPT !.playing = FALSE, !.current_frame = 0]
reset(m) == [m EXCEPT !.current_frame = 0]

\* get_current_frame: AbstractMediaPlayer falls back on the first frame, ThemeZtPlayer
\* returns a copy of the frame or None
get_current_frame(m) ==
    IF 0 <= m.current_frame /\ m.current_frame < Len(m.frames)
    THEN m.frames[m.current_frame + 1]
    ELSE IF m.cls = "ThemeZtPlayer" THEN None
    ELSE IF m.frames # <<>> THEN m.frames[1]
    ELSE None

\* faulty variant: the end is detected one frame late
NextFrameOffByOne(m) ==
    LET m1 == [m EXCEPT !.current_frame = @ + 1]
        m2 == IF m1.current_frame > m1.frame_count
              THEN IF m1.loop THEN [m1 EXCEPT !.current_frame = 0]
                   ELSE [m1 EXCEPT !.current_frame = m1.frame_count - 1,
                                   !.playing = FALSE]
              ELSE m1
    IN [player |-> m2, ret |-> get_current_frame(m2)]

\* AbstractMediaPlayer.next_frame: the player after the call and the frame returned
next_frame(m) ==
    LET m1 == [m EXCEPT !.current_frame = @ + 1]
        m2 == IF m1.current_frame >= m1.frame_count
              THEN IF m1.loop THEN [m1 EXCEPT !.current_frame = 0]
                   ELSE [m1 EXCEPT !.current_frame = m1.frame_count - 1,
                                   !.playing = FALSE]
              ELSE m1
    IN [player |-> m2, ret |-> get_current_frame(m2)]

\* close() of VideoPlayer and ThemeZtPlayer: the frames are dropped
ClosePlayer(m) == [m EXCEPT !.frames = <<>>]

\* a position given to seek is a fraction <<numerator, denominator>>;
\* max(0.0, min(1.0, position))
ClampPosition(position) ==
    IF position[1] < 0 THEN <<0, 1>>
    ELSE IF position[1] > position[2] THEN <<1, 1>>
    ELSE position

\* Python's float is the IEEE 754 double: 53 significant bits, every result rounded
\* to the nearest double, ties to the one whose last bit is 0.  A non-negative integer
\* of any size is the sequence of its bits, lowest first.
RECURSIVE BitsOf(_)
BitsOf(n) == IF n = 0 THEN <<>> ELSE <<n % 2>> \o BitsOf(n \div 2)

RECURSIVE BitsValue(_)
BitsValue(bits) ==
    IF bits = <<>> THEN 0 ELSE Head(bits) + 2 * BitsValue(Tail(bits))

RECURSIVE BitsInc(_)
BitsInc(bits) ==
    IF bits = <<>> THEN <<1>>
    ELSE IF Head(bits) = 0 THEN <<1>> \o Tail(bits)
    ELSE <<0>> \o BitsInc(Tail(bits))

\* bits * n + carry
RECURSIVE BitsTimes(_, _, _)
BitsTimes(bits, n, carry) ==
    IF bits = <<>> THEN BitsOf(carry)
    ELSE <<(Head(bits) * n + carry) % 2>>
             \o BitsTimes(Tail(bits), n, (Head(bits) * n + carry) \div 2)

\* bits without its lowest `dropped` ones, rounded to the nearest, ties to even
RoundBits(bits, dropped) ==
    IF dropped <= 0 THEN bits
    ELSE IF /\ bits[dropped] = 1
            /\ \/ bits[dropped + 1] = 1
               \/ \E i \in 1..(dropped - 1) : bits[i] = 1
    THEN BitsInc(SubSeq(bits, dropped + 1, Len(bits)))
    ELSE SubSeq(bits, dropped + 1, Len(bits))

\* the zeros between the binary point and the first 1 of a / b, 0 < a < b
RECURSIVE LeadingZeros(_, _)
LeadingZeros(a, b) == IF 2 * a < b THEN 1 + LeadingZeros(2 * a, b) ELSE 0

\* the next n binary digits of r / b, r < b, put below acc, and the remainder
RECURSIVE QuotientBits(_, _, _, _)
QuotientBits(r, b, n, acc) ==
    IF n = 0 THEN [bits |-> acc, r |-> r]
    ELSE QuotientBits((2 * r) % b, b, n - 1, <<(2 * r) \div b>> \o acc)

RoundQuotient(d, b) ==
    IF 2 * d.r > b \/ (2 * d.r = b /\ d.bits[1] = 1) THEN BitsInc(d.bits)
    ELSE d.bits

\* the float a / b, 0 < a < b, z = LeadingZeros(a, b): the integer X with
\* a / b = X * 2^-(z + 53) after rounding
FloatQuotient(a, b, z) == RoundQuotient(QuotientBits(a * Pow2(z), b, 53, <<>>), b)

DropLow(bits, n) == SubSeq(bits, n + 1, Len(bits))

\* int(x) of the float nearest to p * 2^-(z + 53), p the exact product
IntOfProduct(p, z) ==
    IF Len(p) <= 53 THEN BitsValue(DropLow(p, z + 53))
    ELSE BitsValue(DropLow(RoundBits(p, Len(p) - 53), z + 53 - (Len(p) - 53)))

\* int(position * n), position the float q[1] / q[2] in 0.0 .. 1.0: the quotient
\* is rounded, the product is rounded, int() drops the fraction
IntOfPositionTimes(q, n) ==
    IF q[1] = 0 \/ n = 0 THEN 0
    ELSE IF q[1] = q[2] THEN n
    ELSE IF n < 0
    THEN -IntOfProduct(BitsTimes(FloatQuotient(q[1], q[2], LeadingZeros(q[1], q[2])),
                                 -n, 0), LeadingZeros(q[1], q[2]))
    ELSE IntOfProduct(BitsTimes(FloatQuotient(q[1], q[2], LeadingZeros(q[1], q[2])),
                                n, 0), LeadingZeros(q[1], q[2]))

\* ThemeZtPlayer.seek: current_frame = int(position * (len(self.frames) - 1))
seek(m, position) ==
    [m EXCEPT !.current_frame =
                  IntOfPositionTimes(ClampPosition(position), Len(m.frames) - 1)]

\* seq[i] of a Python list, i < len(seq): a negative index counts from the end
\* and raises IndexError before the start
ListItem(seq, i) ==
    IF i >= 0 THEN [exc |-> "", val |-> seq[i + 1]]
    ELSE IF Len(seq) + i >= 0 THEN [exc |-> "", val |-> seq[Len(seq) + i + 1]]
    ELSE [exc |-> "IndexError", val |-> 0]

\* get_delay: VideoPlayer returns int(1000 / self.fps), ThemeZtPlayer the delay of
\* the current frame, or 42 when current_frame is not less than len(self.delays)
get_delay(m) ==
    IF m.cls = "VideoPlayer" THEN [exc |-> "", val |-> 1000 \div m.fps]
    ELSE IF m.current_frame < Len(m.delays) THEN ListItem(m.delays, m.current_frame)
    ELSE [exc |-> "", val |-> 42]

NoPlayerCall ==
    [op |-> "init", before |-> LoadedPlayer("VideoPlayer", 0), ret |-> None, exc |-> ""]
PlayerCall(op) == [NoPlayerCall EXCEPT !.op = op, !.before = player]

PlayerInit ==
    /\ player = LoadedPlayer("VideoPlayer", 1)
    /\ mcall = NoPlayerCall

PlayerFrame == UNCHANGED <<factoryVars, threadVars, bulkVars, lcdVars, tlog, fileVars>>

Play ==
    /\ player' = play(player)
    /\ mcall' = PlayerCall("play")
    /\ PlayerFrame

Pause ==
    /\ player' = pause(player)
    /\ mcall' = PlayerCall("pause")
    /\ PlayerFrame

Stop ==
    /\ player' = stop(player)
    /\ mcall' = PlayerCall("stop")
    /\ PlayerFrame

Reset ==
    /\ player' = reset(player)
    /\ mcall' = PlayerCall("reset")
    /\ PlayerFrame

\* player.loop = value, as the callers set it
SetLoop(value) ==
    /\ player' = [player EXCEPT !.loop = value]
    /\ mcall' = PlayerCall("set_loop")
    /\ PlayerFrame

NextFrameCall ==
    LET r == next_frame(player) IN
    /\ player' = r.player
    /\ mcall' = [PlayerCall("next_frame") EXCEPT !.ret = r.ret]
    /\ PlayerFrame

PlayerClose ==
    /\ player' = ClosePlayer(player)
    /\ mcall' = PlayerCall("close")
    /\ PlayerFrame

\* player.seek(position) on a ThemeZtPlayer (VideoPlayer has no seek)
Seek(position) ==
    /\ player.cls = "ThemeZtPlayer"
    /\ player' = seek(player, position)
    /\ mcall' = PlayerCall("seek")
    /\ PlayerFrame

\* player.get_delay()
GetDelay ==
    LET r == get_delay(player) IN
    /\ UNCHANGED player
    /\ mcall' = [PlayerCall("get_delay") EXCEPT !.ret = r.val, !.exc = r.exc]
    /\ PlayerFrame

\* positions given to seek: -1, 0, 0.5, 0.58, 0.75, 1.0 and 5.0
Positions ==
    {<<-1, 1>>, <<0, 1>>, <<1, 2>>, <<58, 100>>, <<3, 4>>, <<1, 1>>, <<5, 1>>}

PlayerNext ==
    \/ Play
    \/ Pause
    \/ Stop
    \/ Reset
    \/ \E value \in BOOLEAN : SetLoop(value)
    \/ NextFrameCall
    \/ PlayerClose
    \/ \E position \in Positions : Seek(position)
    \/ GetDelay

\* ===========================================================================
\* Binary files (media_player.py ThemeZtPlayer, theme_io.py ThemeIO)
\* ===========================================================================
\* A file is its sequence of bytes. A read at position pos (the number of bytes
\* consumed so far) is f.read(n): at most n bytes, fewer at the end of the file,
\* all that is left when n is -1, and ValueError ("read length must be
\* non-negative or -1") for a smaller n, nothing being consumed.
Read(data, pos, n) ==
    IF n < -1 THEN [exc |-> "ValueError", data |-> <<>>]
    ELSE IF n = -1 THEN [exc |-> "", data |-> SubSeq(data, pos + 1, Len(data))]
    ELSE [exc |-> "", data |-> SubSeq(data, pos + 1, Min(pos + n, Len(data)))]

\* struct.pack('<i', v): the four bytes of v in two's complement, low byte first
\* (\div rounds down and % is never negative, so -1 gives FF FF FF FF)
PackI32(v) ==
    <<v % 256, (v \div 256) % 256, (v \div 65536) % 256, (v \div 16777216) % 256>>

\* struct.unpack('<i', h[off:off+4]): the top bit of the last byte is the sign
UnpackI32(h, off) ==
    h[off + 1] + 256 * h[off + 2] + 65536 * h[off + 3]
    + 16777216 * (IF h[off + 4] >= 128 THEN h[off + 4] - 256 ELSE h[off + 4])

Max(a, b) == IF a > b THEN a ELSE b

\* n times struct.unpack('<i', f.read(4)) from position pos; a read that returns
\* fewer than 4 bytes makes struct.unpack raise struct.error
ReadInts(data, pos, n) ==
    LET whole == IF pos >= Len(data) THEN 0 ELSE (Len(data) - pos) \div 4
        k == Min(Max(n, 0), whole)
        vals == [i \in 1..k |-> UnpackI32(data, pos + 4 * (i - 1))]
    IN IF k < n THEN [exc |-> "struct.error", vals |-> vals, pos |-> Len(data)]
       ELSE [exc |-> "", vals |-> vals, pos |-> pos + 4 * k]

\* The frames of the model are JPEG streams FF D8 <one byte of picture> FF D9.
\* Image.open(...) followed by resize/convert succeeds on a complete stream and
\* raises on anything else (PIL.UnidentifiedImageError or OSError).
Jpeg(k) == <<255, 216, k, 255, 217>>

IsImage(body) ==
    /\ Len(body) >= 4
    /\ body[1] = 255 /\ body[2] = 216
    /\ body[Len(body) - 1] = 255 /\ body[Len(body)] = 217

\* faulty variant: a frame that does not decode is skipped
RECURSIVE ReadZtFramesSkipping(_, _, _)
ReadZtFramesSkipping(data, pos, n) ==
    IF n <= 0 THEN [exc |-> "", frames |-> <<>>, pos |-> pos]
    ELSE IF pos + 4 > Len(data)
    THEN [exc |-> "struct.error", frames |-> <<>>, pos |-> Len(data)]
    ELSE LET body == Read(data, pos + 4, UnpackI32(data, pos))
             r == ReadZtFramesSkipping(data, pos + 4 + Len(body.data), n - 1)
         IN IF body.exc # "" THEN [exc |-> body.exc, frames |-> <<>>, pos |-> pos + 4]
            ELSE IF IsImage(body.data) THEN [r EXCEPT !.frames = <<body.data>> \o @]
            ELSE r

\* ThemeZtPlayer.__init__, the loop over the frames: size = unpack('<i'),
\* Image.open(io.BytesIO(f.read(size))), self.frames.append(img); a size below
\* -1 makes f.read raise ValueError
RECURSIVE ReadZtFrames(_, _, _)
ReadZtFrames(data, pos, n) ==
    IF n <= 0 THEN [exc |-> "", frames |-> <<>>, pos |-> pos]
    ELSE IF pos + 4 > Len(data)
    THEN [exc |-> "struct.error", frames |-> <<>>, pos |-> Len(data)]
    ELSE LET body == Read(data, pos + 4, UnpackI32(data, pos))
             at == pos + 4 + Len(body.data)
         IN IF body.exc # "" THEN [exc |-> body.exc, frames |-> <<>>, pos |-> pos + 4]
            ELSE IF ~IsImage(body.data)
            THEN [exc |-> "UnidentifiedImageError", frames |-> <<>>, pos |-> at]
            ELSE LET r == ReadZtFrames(data, at, n - 1)
                 IN [r EXCEPT !.frames = <<body.data>> \o @]

\* faulty variant: the difference of two timestamps is taken as it is
RECURSIVE ZtDelaysUnclamped(_, _, _)
ZtDelaysUnclamped(timestamps, i, delays) ==
    IF i >= Len(timestamps) THEN delays
    ELSE LET delay == IF i < Len(timestamps) - 1
                      THEN timestamps[i + 2] - timestamps[i + 1]
                      ELSE IF delays # <<>> THEN delays[Len(delays)] ELSE 42
         IN ZtDelaysUnclamped(timestamps, i + 1, Append(delays, delay))

\* ThemeZtPlayer.__init__, the loop "for i in range(len(self.timestamps))" from
\* index i (0-based) with the delays appended so far
RECURSIVE ZtDelays(_, _, _)
ZtDelays(timestamps, i, delays) ==
    IF i >= Len(timestamps) THEN delays
    ELSE LET delay == IF i < Len(timestamps) - 1
                      THEN timestamps[i + 2] - timestamps[i + 1]
                      ELSE IF delays # <<>> THEN delays[Len(delays)] ELSE 42
         IN ZtDelays(timestamps, i + 1, Append(delays, Max(1, delay)))

\* faulty variant: the alternate magic 0xDD is let through as well
BadZtMagicLoose(magic) == magic \notin {220, 221}

\* "if magic != 0xDC"
BadZtMagic(magic) == magic # 220

\* a constructor that raised: no player, exc names the exception, nread counts
\* the bytes of the file consumed before it
ZtFailure(exc, nread) == [exc |-> exc, nread |-> nread, player |-> None]

\* ThemeZtPlayer(path) on a file holding the bytes data
ThemeZtPlayer(data) ==
    IF Len(Read(data, 0, 1).data) # 1 THEN ZtFailure("struct.error", 0)
    ELSE IF BadZtMagic(data[1]) THEN ZtFailure("ValueError", 1)
    ELSE IF Len(Read(data, 1, 4).data) # 4 THEN ZtFailure("struct.error", Len(data))
    ELSE
      LET frame_count == UnpackI32(data, 1)
          ts == ReadInts(data, 5, frame_count)
          fr == ReadZtFrames(data, ts.pos, frame_count)
      IN IF ts.exc # "" THEN ZtFailure(ts.exc, ts.pos)
         ELSE IF fr.exc # "" THEN ZtFailure(fr.exc, fr.pos)
         ELSE [exc |-> "", nread |-> fr.pos,
               player |-> [cls |-> "ThemeZtPlayer",
                           frames |-> fr.frames,
                           frame_count |-> Len(fr.frames),
                           current_frame |-> 0,
                           playing |-> FALSE,
                           loop |-> TRUE,
                           timestamps |-> ts.vals,
                           delays |-> ZtDelays(ts.vals, 0, <<>>)]]

\* the bytes of a Theme.zt file: magic, frame count, timestamps, size-prefixed bodies
RECURSIVE ConcatRange(_, _, _)
ConcatRange(seqs, lo, hi) ==
    IF lo > hi THEN <<>>
    ELSE IF lo = hi THEN seqs[lo]
    ELSE LET mid == (lo + hi) \div 2
         IN ConcatRange(seqs, lo, mid) \o ConcatRange(seqs, mid + 1, hi)

\* b''.join(seqs)
Concat(seqs) == ConcatRange(seqs, 1, Len(seqs))

ZtBytes(magic, count, timestamps, bodies) ==
    <<magic>> \o PackI32(count)
    \o Concat([i \in 1..Len(timestamps) |-> PackI32(timestamps[i])])
    \o Concat([i \in 1..Len(bodies) |-> PackI32(Len(bodies[i])) \o bodies[i]])

\* timestamps in ms: equal, increasing by 1 and by 40, and going backwards
TsValues == {0, 1, 41, 30}

\* well-formed files of 0..MaxFrames frames
ZtGoodFiles ==
    UNION {{ZtBytes(220, n, ts, [i \in 1..n |-> Jpeg(i)]) : ts \in [1..n -> TsValues]}
           : n \in 0..MaxFrames}

\* the inputs of the loader: well-formed files, the same under another first byte,
\* cut short, with a negative frame count, with a body that is no image, with
\* a body size of -2 and of -1, and the empty file
ZtFiles ==
    ZtGoodFiles
    \cup {<<m>> \o Tail(g) : m \in {0, 221}, g \in ZtGoodFiles}
    \cup {SubSeq(g, 1, Len(g) - k) : k \in {1, 6, 10}, g \in {h \in ZtGoodFiles : Len(h) > 10}}
    \cup {ZtBytes(220, c, <<>>, <<>>) : c \in {-1, 1}}
    \cup {ZtBytes(220, 1, <<7>>, <<b>>) : b \in {<<1, 2, 3, 4>>, <<>>}}
    \cup {<<220>> \o PackI32(1) \o PackI32(5) \o PackI32(size) \o Jpeg(1) : size \in {-2, -1}}
    \cup {<<>>, <<220>>, <<0>>}

NoZt == [file |-> <<>>, res |-> ZtFailure("", 0)]

ZtInit == zt = NoZt

\* player = ThemeZtPlayer(path) for a file of the bytes file
LoadThemeZt(file) ==
    /\ zt' = [file |-> file, res |-> ThemeZtPlayer(file)]
    /\ UNCHANGED <<factoryVars, threadVars, bulkVars, lcdVars, tlog, playerVars, theme, driver,
                 guiVars>>

\* ---------------------------------------------------------------------------
\* .tr theme files (theme_io.py). A Python str is the sequence of its code points.
\* ---------------------------------------------------------------------------
_HEADER == <<221, 220, 221, 220>>
_PADDING_SIZE == 10240

\* struct.pack('?', v) and struct.unpack('?', b)
PackBool(v) == IF v THEN <<1>> ELSE <<0>>
UnpackBool(data, pos) == data[pos + 1] # 0

\* struct.pack('<f', x) and struct.unpack('<f', b) for the font sizes of the
\* model, whole numbers of points 1 <= x < 2^24: sign 0, exponent 127 + e where
\* 2^e <= x < 2^(e+1), and the 23 bits of x below its leading bit
RECURSIVE FloorLog2(_)
FloorLog2(x) == IF x < 2 THEN 0 ELSE 1 + FloorLog2(x \div 2)

PackF32(x) ==
    LET e == FloorLog2(x)
    IN PackLE32(Shl(127 + e, 23) + x * Pow2(23 - e) - Pow2(23))

UnpackF32(data, pos) ==
    LET sign == data[pos + 4] \div 128
        e == (data[pos + 4] % 128) * 2 + (data[pos + 3] \div 128) - 127
        mantissa == (data[pos + 3] % 128) * 65536 + data[pos + 2] * 256 + data[pos + 1]
    IN IF sign = 0 /\ e \in 0..23 /\ mantissa % Pow2(23 - e) = 0
       THEN (Pow2(23) + mantissa) \div Pow2(23 - e)
       ELSE -1     \* a float that is no whole number of points in that range

\* the UTF-8 form of one code point that is no surrogate
Utf8Char(cp) ==
    IF cp < 128 THEN <<cp>>
    ELSE IF cp < 2048 THEN <<192 + (cp \div 64), 128 + (cp % 64)>>
    ELSE IF cp < 65536
    THEN <<224 + (cp \div 4096), 128 + ((cp \div 64) % 64), 128 + (cp % 64)>>
    ELSE <<240 + (cp \div 262144), 128 + ((cp \div 4096) % 64),
           128 + ((cp \div 64) % 64), 128 + (cp % 64)>>

\* the code points U+D800..U+DFFF, which a str can hold and UTF-8 cannot
IsSurrogate(cp) == cp \in 55296..57343

\* str.encode('utf-8'): UnicodeEncodeError for a str that holds a surrogate
Utf8Encode(s) ==
    IF \E i \in 1..Len(s) : IsSurrogate(s[i])
    THEN [exc |-> "UnicodeEncodeError", data |-> <<>>]
    ELSE [exc |-> "", data |-> Concat([i \in 1..Len(s) |-> Utf8Char(s[i])])]

\* bytes.decode('utf-8', errors='replace').  The decoder takes, at a byte that
\* is no continuation byte, the longest run that begins a well-formed sequence:
\* the whole sequence, which gives its code point, or a lead byte and the
\* continuation bytes that may follow it before a byte that does not fit or the
\* end of the input, which gives one U+FFFD; every other byte gives U+FFFD.
IsContinuation(x) == x \in 128..191

\* the second byte of a sequence led by c is rejected: no continuation byte, or
\* one that would make the sequence overlong (E0, F0), a surrogate (ED) or a
\* code point above U+10FFFF (F4)
BadSecond(c, c2) ==
    \/ ~IsContinuation(c2)
    \/ c = 224 /\ c2 < 160
    \/ c = 237 /\ c2 >= 160
    \/ c = 240 /\ c2 < 144
    \/ c = 244 /\ c2 >= 144

\* the length of the sequence a lead byte announces
SequenceLength(c) == IF c < 224 THEN 2 ELSE IF c < 240 THEN 3 ELSE 4

\* the number of bytes the decoder takes at byte j (1-based) of b
UnitLen(b, j) ==
    IF b[j] < 194 \/ b[j] >= 245 THEN 1
    ELSE IF j + 1 > Len(b) THEN 1
    ELSE IF BadSecond(b[j], b[j + 1]) THEN 1
    ELSE IF SequenceLength(b[j]) = 2 THEN 2
    ELSE IF j + 2 > Len(b) THEN 2
    ELSE IF ~IsContinuation(b[j + 2]) THEN 2
    ELSE IF SequenceLength(b[j]) = 3 THEN 3
    ELSE IF j + 3 > Len(b) THEN 3
    ELSE IF ~IsContinuation(b[j + 3]) THEN 3
    ELSE 4

\* the character the decoder gives for the bytes it takes at byte j
UnitCodePoint(b, j) ==
    IF b[j] < 128 THEN b[j]
    ELSE IF b[j] < 194 \/ b[j] >= 245 \/ UnitLen(b, j) # SequenceLength(b[j]) THEN 65533
    ELSE IF b[j] < 224 THEN (b[j] - 192) * 64 + (b[j + 1] - 128)
    ELSE IF b[j] < 240
    THEN (b[j] - 224) * 4096 + (b[j + 1] - 128) * 64 + (b[j + 2] - 128)
    ELSE (b[j] - 240) * 262144 + (b[j + 1] - 128) * 4096 + (b[j + 2] - 128) * 64
         + (b[j + 3] - 128)

Utf8Decode(b) ==
    LET Starts(i) == \A k \in 1..3 : i - k >= 1 => UnitLen(b, i - k) <= k
        at == SelectSeq([i \in 1..Len(b) |-> i], Starts)
    IN [k \in 1..Len(at) |-> UnitCodePoint(b, at[k])]

\* faulty variant: the continuation bit is left off the length bytes
RECURSIVE LengthPrefixNoFlag(_)
LengthPrefixNoFlag(length) ==
    IF length >= 128
    THEN <<BitAnd(length, 127)>> \o LengthPrefixNoFlag(Shr(length, 7))
    ELSE <<length>>

\* _write_csharp_string, the length: "while length >= 0x80: write((length & 0x7F)
\* | 0x80); length >>= 7" and then the last byte
RECURSIVE LengthPrefix(_)
LengthPrefix(length) ==
    IF length >= 128
    THEN <<BitOr(BitAnd(length, 127), 128)>> \o LengthPrefix(Shr(length, 7))
    ELSE <<length>>

\* _write_csharp_string: the bytes written, none when s.encode raises
_write_csharp_string(s) ==
    LET data == Utf8Encode(s)
    IN IF data.exc # "" THEN data
       ELSE [exc |-> "", data |-> LengthPrefix(Len(data.data)) \o data.data]

\* _read_csharp_string, the length loop from position pos
RECURSIVE ReadLength(_, _, _, _)
ReadLength(data, pos, shift, length) ==
    IF pos + 1 > Len(data) THEN [exc |-> "struct.error", val |-> 0, pos |-> pos]
    ELSE LET b == data[pos + 1]
             l == BitOr(length, Shl(BitAnd(b, 127), shift))
         IN IF BitAnd(b, 128) = 0 THEN [exc |-> "", val |-> l, pos |-> pos + 1]
            ELSE ReadLength(data, pos + 1, shift + 7, l)

\* _read_csharp_string after the length loop, which ended as l: "if length == 0:
\* return ''" and "return f.read(length).decode('utf-8', errors='replace')"
ReadStringBody(data, l) ==
    LET body == Read(data, l.pos, l.val).data
    IN IF l.exc # "" THEN [exc |-> l.exc, val |-> <<>>, pos |-> l.pos]
       ELSE IF l.val = 0 THEN [exc |-> "", val |-> <<>>, pos |-> l.pos]
       ELSE [exc |-> "", val |-> Utf8Decode(body), pos |-> l.pos + Len(body)]

_read_csharp_string(data, pos) == ReadStringBody(data, ReadLength(data, pos, 0, 0))

\* int(s, 16) on a slice of a colour string.  DecimalZeros are the characters
\* of decimal value 0 (each is followed by those of value 1 to 9), IntSpaces the
\* white space int() strips: the ASCII blanks and the other characters str.isspace
\* accepts.
DecimalZeros ==
    {48, 1632, 1776, 1984, 2406, 2534, 2662, 2790, 2918, 3046, 3174, 3302, 3430, 3558,
     3664, 3792, 3872, 4160, 4240, 6112, 6160, 6470, 6608, 6784, 6800, 6992, 7088, 7232,
     7248, 42528, 43216, 43264, 43472, 43504, 43600, 44016, 65296, 66720, 68912, 69734,
     69872, 69942, 70096, 70384, 70736, 70864, 71248, 71360, 71472, 71904, 72016, 72784,
     73040, 73120, 92768, 92864, 93008, 120782, 120792, 120802, 120812, 120822, 123200,
     123632, 125264, 130032}

IntSpaces ==
    (9..13) \cup {32, 133, 160, 5760} \cup (8192..8202) \cup {8232, 8233, 8239, 8287, 12288}

\* the value of a character as a digit of base 16, -1 for a character that is none
HexValue(c) ==
    IF c \in 65..70 THEN c - 55
    ELSE IF c \in 97..102 THEN c - 87
    ELSE IF \E z \in DecimalZeros : c \in z..(z + 9)
    THEN c - (CHOOSE z \in DecimalZeros : c \in z..(z + 9))
    ELSE -1

\* int(color[i-1:i+1], 16), i counting the characters from 1: the slice holds two
\* characters, or fewer at the end of the string; int() takes one or two digits,
\* a digit after a sign or a blank, and a digit before a blank
Int16(color, i) ==
    LET s == SubSeq(color, i, Min(i + 1, Len(color)))
        Value(v) == [exc |-> "", val |-> v]
        Error == [exc |-> "ValueError", val |-> 0]
    IN IF i > Len(color) THEN Error
       ELSE IF Len(s) = 1
       THEN IF HexValue(s[1]) >= 0 THEN Value(HexValue(s[1])) ELSE Error
       ELSE IF HexValue(s[2]) >= 0
       THEN IF HexValue(s[1]) >= 0 THEN Value(16 * HexValue(s[1]) + HexValue(s[2]))
            ELSE IF s[1] \in IntSpaces \cup {43} THEN Value(HexValue(s[2]))
            ELSE IF s[1] = 45 THEN Value(-HexValue(s[2]))
            ELSE Error
       ELSE IF HexValue(s[1]) >= 0 /\ s[2] \in IntSpaces THEN Value(HexValue(s[1]))
       ELSE Error

\* f'{v:02x}'
Fmt02x(v) ==
    LET d(k) == IF k < 10 THEN 48 + k ELSE 87 + k
    IN <<d(v \div 16), d(v % 16)>>

\* _write_element: the bytes written for one overlay element (a dict with all its
\* keys; color is a str) and the exception raised, if any: by the encoding of
\* font_name or text, by int() on the colour, or by struct.pack('BBBB', ...) on
\* a negative number
_write_element(elem) ==
    LET hash == elem.color # <<>> /\ elem.color[1] = 35
        White == [exc |-> "", val |-> 255]
        r == IF hash THEN Int16(elem.color, 2) ELSE White
        g == IF hash THEN Int16(elem.color, 4) ELSE White
        b == IF hash THEN Int16(elem.color, 6) ELSE White
        name == _write_csharp_string(elem.font_name)
        text == _write_csharp_string(elem.text)
        ints == PackI32(elem.mode) \o PackI32(elem.mode_sub)
                \o PackI32(elem.x) \o PackI32(elem.y)
                \o PackI32(elem.main_count) \o PackI32(elem.sub_count)
        head == ints \o name.data \o PackF32(elem.font_size)
                \o <<elem.font_style, 3, 134>>
    IN IF name.exc # "" THEN [exc |-> name.exc, data |-> ints]
       ELSE IF r.exc # "" \/ g.exc # "" \/ b.exc # ""
       THEN [exc |-> "ValueError", data |-> head]
       ELSE IF r.val < 0 \/ g.val < 0 \/ b.val < 0
       THEN [exc |-> "struct.error", data |-> head]
       ELSE IF text.exc # ""
       THEN [exc |-> text.exc, data |-> head \o <<255, r.val, g.val, b.val>>]
       ELSE [exc |-> "",
             data |-> head \o <<255, r.val, g.val, b.val>> \o text.data]

NoElement ==
    [mode |-> 0, mode_sub |-> 0, x |-> 0, y |-> 0, main_count |-> 0, sub_count |-> 0,
     font_name |-> <<>>, font_size |-> 1, font_style |-> 0, color |-> <<>>,
     text |-> <<>>]

\* _read_element from position pos once font_name and text are read: a
\* struct.unpack on a short read raises struct.error, the read of the two unit
\* and charset bytes is not checked
ElementRead(data, pos, name, text) ==
    LET at == name.pos
    IN IF pos + 24 > Len(data) THEN [exc |-> "struct.error", val |-> NoElement, pos |-> pos]
       ELSE IF name.exc # "" THEN [exc |-> name.exc, val |-> NoElement, pos |-> at]
       ELSE IF at + 11 > Len(data)
       THEN [exc |-> "struct.error", val |-> NoElement, pos |-> at]
       ELSE IF text.exc # "" THEN [exc |-> text.exc, val |-> NoElement, pos |-> text.pos]
       ELSE [exc |-> "",
             val |-> [mode |-> UnpackI32(data, pos),
                      mode_sub |-> UnpackI32(data, pos + 4),
                      x |-> UnpackI32(data, pos + 8),
                      y |-> UnpackI32(data, pos + 12),
                      main_count |-> UnpackI32(data, pos + 16),
                      sub_count |-> UnpackI32(data, pos + 20),
                      font_name |-> name.val,
                      font_size |-> UnpackF32(data, at),
                      font_style |-> data[at + 5],
                      color |-> <<35>> \o Fmt02x(data[at + 9]) \o Fmt02x(data[at + 10])
                                \o Fmt02x(data[at + 11]),
                      text |-> text.val],
             pos |-> text.pos]

\* _read_element once font_name is read: text follows the eleven bytes of font
\* size, style, unit, charset and colour
ElementText(data, pos, name) ==
    ElementRead(data, pos, name, _read_csharp_string(data, name.pos + 11))

\* _read_element from position pos: font_name follows the six integers
_read_element(data, pos) == ElementText(data, pos, _read_csharp_string(data, pos + 24))

\* "for _ in range(elem_count): result['elements'].append(_read_element(f))"
RECURSIVE ReadElements(_, _, _)
\* the loop after one element was read as e, n elements being left with it
ElementsFrom(data, n, e) ==
    IF e.exc # "" THEN [exc |-> e.exc, vals |-> <<>>, pos |-> e.pos]
    ELSE LET r == ReadElements(data, e.pos, n - 1)
         IN [r EXCEPT !.vals = <<e.val>> \o @]

ReadElements(data, pos, n) ==
    IF n <= 0 THEN [exc |-> "", vals |-> <<>>, pos |-> pos]
    ELSE ElementsFrom(data, n, _read_element(data, pos))

\* A picture is a positive number k (None when there is none); image.save(buf,
\* format='PNG') gives the PNG signature followed by k, and Image.open takes
\* back exactly such streams.
PngBytes(k) == <<137, 80, 78, 71, k>>

IsPng(data) == Len(data) = 5 /\ SubSeq(data, 1, 4) = <<137, 80, 78, 71>>

\* Image.open(io.BytesIO(data)).save(path): the bytes of the file written
PngResave(data) == PngBytes(data[5])

\* _write_image
_write_image(image) ==
    IF image # None THEN PackI32(Len(PngBytes(image))) \o PngBytes(image)
    ELSE PackI32(0)

\* _write_background, the two loops that copy a Theme.zt body from position pos
\* of the file zt: n timestamps, then n frames "frame_len, zt.read(frame_len)"
RECURSIVE CopyFrames(_, _, _)
CopyFrames(zt_data, pos, n) ==
    IF n <= 0 THEN [exc |-> "", data |-> <<>>, pos |-> pos]
    ELSE IF pos + 4 > Len(zt_data)
    THEN [exc |-> "struct.error", data |-> <<>>, pos |-> Len(zt_data)]
    ELSE LET frame_len == UnpackI32(zt_data, pos)
             frame_data == Read(zt_data, pos + 4, frame_len)
             r == CopyFrames(zt_data, pos + 4 + Len(frame_data.data), n - 1)
         IN IF frame_data.exc # ""
            THEN [exc |-> frame_data.exc, data |-> <<>>, pos |-> pos + 4]
            ELSE [r EXCEPT !.data = PackI32(frame_len) \o frame_data.data \o @]

CopyVideo(zt_data, pos, n) ==
    LET ts == ReadInts(zt_data, pos, n)
        fr == CopyFrames(zt_data, ts.pos, n)
        tsBytes == Concat([i \in 1..Len(ts.vals) |-> PackI32(ts.vals[i])])
    IN IF ts.exc # "" THEN [exc |-> ts.exc, data |-> tsBytes, pos |-> ts.pos]
       ELSE [exc |-> fr.exc, data |-> tsBytes \o fr.data, pos |-> fr.pos]

\* a path to no file, as theme_zt_path=None or a path that does not exist
NoPath == [exists |-> FALSE, data |-> <<>>]

\* _write_background: the bytes written, and the exception of a Theme.zt that
\* ends too early
_write_background(background_image, theme_zt) ==
    IF background_image # None
    THEN [exc |-> "",
          data |-> PackI32(0) \o PackI32(Len(PngBytes(background_image)))
                   \o PngBytes(background_image)]
    ELSE IF theme_zt.exists
    THEN IF Read(theme_zt.data, 0, 1).data # <<220>> THEN [exc |-> "", data |-> <<>>]
         ELSE IF Len(theme_zt.data) < 5 THEN [exc |-> "struct.error", data |-> <<>>]
         ELSE LET frame_count == UnpackI32(theme_zt.data, 1)
                  v == CopyVideo(theme_zt.data, 5, frame_count)
              IN [exc |-> v.exc, data |-> PackI32(frame_count) \o v.data]
    ELSE [exc |-> "", data |-> PackI32(0) \o PackI32(0)]

\* "for elem in overlay_elements: _write_element(f, elem)"
RECURSIVE WriteElements(_)
WriteElements(elems) ==
    IF elems = <<>> THEN [exc |-> "", data |-> <<>>]
    ELSE LET e == _write_element(Head(elems))
             r == WriteElements(Tail(elems))
         IN IF e.exc # "" THEN e
            ELSE [exc |-> r.exc, data |-> e.data \o r.data]

\* ThemeIO.export: the bytes of the .tr file written and the exception raised,
\* if any (the file then holds what was written before it)
export(a) ==
    LET elems == WriteElements(a.overlay_elements)
        head == _HEADER \o PackBool(a.show_system_info)
                \o PackI32(Len(a.overlay_elements)) \o elems.data
        state == PackBool(a.show_background) \o PackBool(a.show_screenshot)
                 \o PackI32(a.direction) \o PackI32(a.ui_mode) \o PackI32(a.mode)
                 \o PackBool(a.hide_screenshot_bg)
                 \o Concat([i \in 1..4 |-> PackI32(a.screenshot_rect[i])])
                 \o PackBool(a.show_mask)
                 \o PackI32(a.mask_center[1]) \o PackI32(a.mask_center[2])
        padding == [i \in 1.._PADDING_SIZE |-> 220]
        bg == _write_background(a.background_image, a.theme_zt)
    IN IF elems.exc # "" THEN [exc |-> elems.exc, data |-> head]
       ELSE [exc |-> bg.exc,
             data |-> head \o state \o padding \o _write_image(a.mask_image) \o bg.data]

\* the dict import_theme starts from
DefaultResult ==
    [elements |-> <<>>, show_system_info |-> TRUE, show_background |-> TRUE,
     show_screenshot |-> FALSE, direction |-> 0, ui_mode |-> 1, mode |-> 0,
     hide_screenshot_bg |-> TRUE, screenshot_rect |-> <<0, 0, 320, 320>>,
     show_mask |-> FALSE, mask_center |-> <<160, 160>>,
     has_background |-> FALSE, has_mask |-> FALSE, has_video |-> FALSE]

\* the files import_theme leaves in output_dir (<<>> for a file not written)
NoFiles == [png00 |-> <<>>, png01 |-> <<>>, theme_zt |-> <<>>]

\* what a call of import_theme comes to: the exception or the dict returned, and
\* the files written until then
Raised(exc, files) == [exc |-> exc, result |-> DefaultResult, files |-> files]
Returned(result, files) == [exc |-> "", result |-> result, files |-> files]

\* faulty variant: the magic byte is not written back
ReadVideoFramesNoMagic(data, pos, frame_count) ==
    LET v == CopyVideo(data, pos, frame_count)
    IN [exc |-> v.exc, file |-> PackI32(frame_count) \o v.data]

\* _read_video_frames: Theme.zt is opened for writing, the magic and frame_count
\* are written, then the timestamps and frames are copied from position pos
_read_video_frames(data, pos, frame_count) ==
    LET v == CopyVideo(data, pos, frame_count)
    IN [exc |-> v.exc, file |-> <<220>> \o PackI32(frame_count) \o v.data]

\* import_theme from "# Mask image" on: pos is the position after the padding,
\* result the dict filled so far
ImportImages(data, pos, result) ==
    LET mask_len == UnpackI32(data, pos)
        mask_data == IF mask_len > 0 THEN Read(data, pos + 4, mask_len).data ELSE <<>>
        f1 == IF mask_len > 0 THEN [NoFiles EXCEPT !.png01 = PngResave(mask_data)]
              ELSE NoFiles
        r1 == [result EXCEPT !.has_mask = mask_len > 0]
        at == pos + 4 + Len(mask_data)
        marker == UnpackI32(data, at)
        bg_len == UnpackI32(data, at + 4)
        bg_data == Read(data, at + 8, bg_len).data
        video == _read_video_frames(data, at + 4, marker)
    IN IF pos + 4 > Len(data) THEN Raised("struct.error", NoFiles)
       ELSE IF mask_len > 0 /\ ~IsPng(mask_data)
       THEN Raised("UnidentifiedImageError", NoFiles)
       ELSE IF at + 4 > Len(data) THEN Raised("struct.error", f1)
       ELSE IF marker = 0
       THEN IF at + 8 > Len(data) THEN Raised("struct.error", f1)
            ELSE IF bg_len <= 0 THEN Returned(r1, f1)
            ELSE IF ~IsPng(bg_data) THEN Raised("UnidentifiedImageError", f1)
            ELSE Returned([r1 EXCEPT !.has_background = TRUE],
                          [f1 EXCEPT !.png00 = PngResave(bg_data)])
       ELSE IF marker > 0
       THEN IF video.exc # "" THEN Raised(video.exc, [f1 EXCEPT !.theme_zt = video.file])
            ELSE Returned([r1 EXCEPT !.has_video = TRUE],
                          [f1 EXCEPT !.theme_zt = video.file])
       ELSE Returned(r1, f1)

\* import_theme after the elements were read as elems: the display state, the
\* padding and the images
ImportState(data, elems) ==
    LET q == elems.pos
        result == [DefaultResult EXCEPT
                     !.show_system_info = UnpackBool(data, 4),
                     !.elements = elems.vals,
                     !.show_background = UnpackBool(data, q),
                     !.show_screenshot = UnpackBool(data, q + 1),
                     !.direction = UnpackI32(data, q + 2),
                     !.ui_mode = UnpackI32(data, q + 6),
                     !.mode = UnpackI32(data, q + 10),
                     !.hide_screenshot_bg = UnpackBool(data, q + 14),
                     !.screenshot_rect = [i \in 1..4 |-> UnpackI32(data, q + 11 + 4 * i)],
                     !.show_mask = UnpackBool(data, q + 31),
                     !.mask_center = <<UnpackI32(data, q + 32), UnpackI32(data, q + 36)>>]
    IN IF elems.exc # "" THEN Raised(elems.exc, NoFiles)
       ELSE IF q + 40 > Len(data) THEN Raised("struct.error", NoFiles)
       ELSE ImportImages(data, q + 40 + _PADDING_SIZE, result)

\* ThemeIO.import_theme on a file of the bytes data, into an empty output_dir
import_theme(data) ==
    LET header == Read(data, 0, 4).data
    IN IF header = _HEADER
       THEN IF Len(data) < 9 THEN Raised("struct.error", NoFiles)
            ELSE ImportState(data, ReadElements(data, 9, UnpackI32(data, 5)))
       ELSE IF header = <<>> THEN Raised("IndexError", NoFiles)
       ELSE IF header[1] = 220
       THEN IF Len(header) < 2 THEN Raised("IndexError", NoFiles)
            ELSE IF header[2] = 220 THEN Returned(DefaultResult, NoFiles)
            ELSE Raised("ValueError", NoFiles)
       ELSE Raised("ValueError", NoFiles)

\* The arguments of the model's exports. Texts are given by their code points:
\* "Arial", "Hello", four CJK characters of three bytes each, e-acute.
Chars(n, c) == [i \in 1..n |-> c]

Element1 ==
    [mode |-> 1, mode_sub |-> 0, x |-> 10, y |-> 20, main_count |-> 0, sub_count |-> 0,
     font_name |-> <<65, 114, 105, 97, 108>>, font_size |-> 24, font_style |-> 0,
     color |-> <<35, 70, 70, 54, 66, 51, 53>>,           \* "#FF6B35"
     text |-> <<>>]

Element2 ==
    [mode |-> 4, mode_sub |-> 2, x |-> -5, y |-> 100, main_count |-> 3, sub_count |-> 1,
     font_name |-> <<24494, 36719, 38597, 40657>>, font_size |-> 16, font_style |-> 1,
     color |-> <<35, 102, 102, 54, 98, 51, 53>>,         \* "#ff6b35"
     text |-> <<72, 101, 108, 108, 111>>]

Element3 ==
    [mode |-> 0, mode_sub |-> 0, x |-> 100, y |-> 100, main_count |-> 0, sub_count |-> 1,
     font_name |-> <<233>>, font_size |-> 36, font_style |-> 0,
     color |-> <<35, 48, 48, 102, 102, 55, 102>>,        \* "#00ff7f"
     text |-> Chars(130, 88)]

\* a colour one digit short, "#FFFFF", and a text of one character of four bytes
Element4 ==
    [mode |-> 2, mode_sub |-> 0, x |-> 0, y |-> 0, main_count |-> 1, sub_count |-> 0,
     font_name |-> <<65, 114, 105, 97, 108>>, font_size |-> 12, font_style |-> 0,
     color |-> <<35, 70, 70, 70, 70, 70>>,
     text |-> <<128512>>]

ElementLists ==
    {<<>>, <<Element2>>, <<Element3, Element2>>, <<Element1, Element2>>, <<Element4>>}

Display1 ==
    [show_system_info |-> TRUE, show_background |-> TRUE, show_screenshot |-> FALSE,
     direction |-> 0, ui_mode |-> 1, mode |-> 0, hide_screenshot_bg |-> TRUE,
     screenshot_rect |-> <<0, 0, 320, 320>>, show_mask |-> FALSE,
     mask_center |-> <<160, 160>>]

Display2 ==
    [show_system_info |-> FALSE, show_background |-> FALSE, show_screenshot |-> TRUE,
     direction |-> 180, ui_mode |-> 2, mode |-> 1, hide_screenshot_bg |-> FALSE,
     screenshot_rect |-> <<10, 20, 300, 280>>, show_mask |-> TRUE,
     mask_center |-> <<-100, 200>>]

\* Theme.zt files given to export: none, one of one frame, one of MaxFrames
\* frames, one of no frame, one that does not start with 0xDC
ThemeZtInputs ==
    {NoPath,
     [exists |-> TRUE, data |-> ZtBytes(220, 1, <<0>>, <<Jpeg(1)>>)],
     [exists |-> TRUE,
      data |-> ZtBytes(220, MaxFrames, [i \in 1..MaxFrames |-> 40 * i],
                       [i \in 1..MaxFrames |-> Jpeg(i)])],
     [exists |-> TRUE, data |-> ZtBytes(220, 0, <<>>, <<>>)],
     [exists |-> TRUE, data |-> ZtBytes(0, 1, <<0>>, <<Jpeg(1)>>)],
     [exists |-> TRUE,
      data |-> <<220>> \o PackI32(1) \o PackI32(5) \o PackI32(-2) \o Jpeg(1)]}

ExportArgs ==
    {[overlay_elements |-> el,
      show_system_info |-> d.show_system_info, show_background |-> d.show_background,
      show_screenshot |-> d.show_screenshot, direction |-> d.direction,
      ui_mode |-> d.ui_mode, mode |-> d.mode,
      hide_screenshot_bg |-> d.hide_screenshot_bg,
      screenshot_rect |-> d.screenshot_rect, show_mask |-> d.show_mask,
      mask_center |-> d.mask_center,
      mask_image |-> mi, background_image |-> bi, theme_zt |-> z]
     : el \in ElementLists, d \in {Display1, Display2},
       mi \in {None, 1}, bi \in {None, 2}, z \in ThemeZtInputs}

\* files given to import_theme that export did not write
TrFiles ==
    {<<>>, <<220>>, <<220, 220>>, <<220, 220, 1, 0, 0, 0, 0>>, <<220, 221, 220, 221>>,
     <<221>>, <<221, 220, 221>>, _HEADER, _HEADER \o <<1, 0, 0, 0, 0>>,
     <<170, 187, 204, 221>> \o Zeros(100), <<221, 220, 221, 221>> \o Zeros(100)}

\* strings given to _write_csharp_string: empty, short, of 127, 128, 200 and 300
\* bytes, of 64 characters that take 128 bytes, one with a character of four
\* bytes, and two that hold a lone surrogate
Strings ==
    {<<>>, <<65, 66>>, <<24494, 36719, 38597, 40657>>, Chars(64, 233),
     <<97, 128512>>, <<55296>>, <<97, 57343, 98>>}
    \cup {Chars(n, 65) : n \in {127, 128, 200, 300}}

NoTheme ==
    [op |-> "init", args |-> 0, file |-> <<>>, exported |-> "", imp |-> Raised("", NoFiles),
     text |-> <<>>, wrote |-> "", bytes |-> <<>>,
     back |-> [exc |-> "", val |-> <<>>, pos |-> 0]]

ThemeInit == theme = NoTheme

ThemeFrame ==
    UNCHANGED <<factoryVars, threadVars, bulkVars, lcdVars, tlog, playerVars, zt, driver,
                guiVars>>

\* the calls of a run, each with its arguments: export of a theme, import of a
\* file that export did not write, a string written and read back
ThemeCalls ==
    {[NoTheme EXCEPT !.op = "export", !.args = a] : a \in ExportArgs}
    \cup {[NoTheme EXCEPT !.op = "file", !.file = f] : f \in TrFiles}
    \cup {[NoTheme EXCEPT !.op = "text", !.text = s] : s \in Strings}

\* export_theme(path, ...) and then, if it returned, import_theme(path, out_dir)
ExportImport ==
    /\ theme.op = "export"
    /\ LET e == export(theme.args) IN
       theme' = [theme EXCEPT !.op = "export_import",
                              !.exported = e.exc,
                              !.imp = IF e.exc = "" THEN import_theme(e.data)
                                      ELSE Raised("", NoFiles)]
    /\ ThemeFrame

\* import_theme(path, out_dir) on a file that export did not write
ImportTheme ==
    /\ theme.op = "file"
    /\ theme' = [theme EXCEPT !.op = "import", !.imp = import_theme(theme.file)]
    /\ ThemeFrame

\* _write_csharp_string(buf, s); buf.seek(0); _read_csharp_string(buf)
StringRoundTrip ==
    /\ theme.op = "text"
    /\ LET out == _write_csharp_string(theme.text) IN
       theme' = [theme EXCEPT !.op = "string", !.wrote = out.exc, !.bytes = out.data,
                              !.back = IF out.exc = "" THEN _read_csharp_string(out.data, 0)
                                       ELSE @]
    /\ ThemeFrame

\* ---------------------------------------------------------------------------
\* The SCSI LCD driver (driver_lcd.LCDDriver.init_device, device_scsi._build_header
\* and _crc32), with the commands of LCDDeviceImplementation
\* ---------------------------------------------------------------------------
\* faulty variant: the init command repeats the poll command
GetInitCommandPoll(l) == <<245, 57600>>

\* LCDDeviceImplementation.get_poll_command and get_init_command: (cmd, size)
get_poll_command(l) == <<245, 57600>>

get_init_command(l) == <<501, 57600>>

RECURSIVE BitXor(_, _)
BitXor(a, b) ==
    IF a = 0 THEN b
    ELSE IF b = 0 THEN a
    ELSE ((a + b) % 2) + 2 * BitXor(a \div 2, b \div 2)

\* A 32-bit unsigned value is held as its four bytes, low byte first.
\* One step of the reflected CRC-32 on the register c: shift right by one bit and,
\* if the bit shifted out was set, XOR with the polynomial 0xEDB88320.
CrcShift(c) ==
    LET sh == <<(c[1] \div 2) + (c[2] % 2) * 128, (c[2] \div 2) + (c[3] % 2) * 128,
                (c[3] \div 2) + (c[4] % 2) * 128, c[4] \div 2>>
        poly == <<32, 131, 184, 237>>
    IN IF c[1] % 2 = 1 THEN [i \in 1..4 |-> BitXor(sh[i], poly[i])] ELSE sh

RECURSIVE CrcBits(_, _)
CrcBits(c, n) == IF n = 0 THEN c ELSE CrcBits(CrcShift(c), n - 1)

RECURSIVE CrcFrom(_, _, _)
CrcFrom(data, i, c) ==
    IF i > Len(data) THEN c
    ELSE LET next == CrcBits([c EXCEPT ![1] = BitXor(@, data[i])], 8)
         IN IF Len(next) = 4 THEN CrcFrom(data, i + 1, next) ELSE next

\* _crc32(data) = binascii.crc32(data) & 0xFFFFFFFF, as four bytes low byte first
_crc32(data) ==
    LET c == CrcFrom(data, 1, <<255, 255, 255, 255>>)
    IN [i \in 1..4 |-> 255 - c[i]]

\* _build_header(cmd, size): cmd, eight zero bytes, size, CRC of these 16 bytes
_build_header(cmd, size) ==
    LET payload == PackLE32(cmd) \o Zeros(8) \o PackLE32(size)
    IN payload \o _crc32(payload)

\* a driver as the tests make it: an implementation, the initialized flag, and
\* the commands it has issued through _scsi_read and _scsi_write
LCDDriver(initialized) ==
    [implementation |-> LCDDeviceImplementation("thermalright_lcd_v1"),
     initialized |-> initialized,
     issued |-> <<>>,
     last |-> [op |-> "new", was |-> initialized],
     header |-> [cmd |-> 0, size |-> 0, bytes |-> <<>>]]

\* LCDDriver.init_device: nothing on an initialized driver; otherwise the poll
\* command is read, the init command written and the driver marked initialized
init_device(d) ==
    LET poll == get_poll_command(d.implementation)
        init == get_init_command(d.implementation)
    IN IF d.initialized THEN d
       ELSE [d EXCEPT !.issued = @ \o <<[op |-> "read", cmd |-> poll[1], size |-> poll[2]],
                                        [op |-> "write", cmd |-> init[1], size |-> init[2]]>>,
                      !.initialized = TRUE]

DriverInit == driver = LCDDriver(FALSE)

DriverFrame ==
    UNCHANGED <<factoryVars, threadVars, bulkVars, lcdVars, tlog, playerVars, zt, theme,
                guiVars>>

\* a new driver, not initialized or (as one test sets it) initialized
NewDriver(initialized) ==
    /\ driver' = [LCDDriver(initialized) EXCEPT !.header = driver.header]
    /\ DriverFrame

InitDevice ==
    /\ driver' = [init_device([driver EXCEPT !.issued = <<>>]) EXCEPT
                    !.last = [op |-> "init_device", was |-> driver.initialized]]
    /\ DriverFrame

\* header = _build_header(cmd, size)
BuildHeader(cmd, size) ==
    /\ driver' = [driver EXCEPT
                    !.last = [op |-> "_build_header", was |-> driver.initialized],
                    !.header = [cmd |-> cmd, size |-> size,
                                bytes |-> _build_header(cmd, size)]]
    /\ DriverFrame

\* commands and sizes given to _build_header: those of the handshake and of the
\* tests, frame chunk commands, 0, and the largest values below 2^31
HeaderCmds == {0, 66, 245, 501, 16777237, 2147483647}
HeaderSizes == {0, 512, 57600, 2147483647}

\* ===========================================================================
\* PipeWireScreenCast (qt_components/pipewire_capture.py), with the portal
\* dependencies installed.  start() and stop() run on the main thread, the
\* portal responses on the GLib thread, _on_new_sample on the GStreamer thread.
\* ===========================================================================
\* start() calls after which no further start is made
MaxStarts == 2

\* PipeWireScreenCast.__init__: the two threading.Event objects are their flags
NewScreenCast ==
    [_session_path |-> None, _pipewire_fd |-> None, _node_id |-> None,
     _pipeline |-> None, _appsink |-> None, _glib_loop |-> None,
     _latest_frame |-> None, _running |-> FALSE,
     _session_ready |-> FALSE, _session_failed |-> FALSE]

\* "str(results.get('session_handle', ''))" of results without a handle: the
\* empty string
NoHandle == -1

\* the object (o) and what surrounds it: the GLib main loops created ("created",
\* "running", "quit"), the GStreamer pipelines ("NULL" as parsed and after
\* set_state(NULL), "PLAYING", "FAILED"), the PipeWire fds ("open", "closed"),
\* the portal sessions ("open", "closed"), the portal requests whose response is
\* outstanding (kind "create", "select" or "start", and the session the request
\* named), where the main thread and the GLib thread stand and the value each
\* has read from an attribute and not yet used (mtmp, gtmp), the call in
\* progress, what the last call returned, and the number of start() calls made.
\* No lock protects an attribute but _latest_frame, so each thread goes on by
\* one read, one call or one assignment of a shared attribute at a time.
NoCast ==
    [o |-> NewScreenCast, loops |-> <<>>, pipelines |-> <<>>, fds |-> <<>>,
     sessions |-> <<>>, pending |-> <<>>, main |-> "idle", glib |-> "idle",
     mtmp |-> None, gtmp |-> None,
     call |-> "none", ret |-> "none", starts |-> 0]

CastInit == cast = NoCast

\* grab_frame: "with self._frame_lock: return self._latest_frame"
grab_frame(o) == o._latest_frame

\* self._glib_loop.is_running() of some loop: responses are dispatched
LoopRunning(c) == \E l \in 1..Len(c.loops) : c.loops[l] = "running"

\* "if self._session_path:" / "if not self._session_path:": neither None nor ''
HasPath(c) == c.o._session_path \notin {None, NoHandle}

\* the Response signal of request i is delivered: the request is answered
Dispatched(c, i) ==
    [c EXCEPT !.pending = SubSeq(@, 1, i - 1) \o SubSeq(@, i + 1, Len(@))]

\* start() up to the wait, one line at a time: "if self._running: return True"
\* and "self._session_ready.clear()" (108-111), "self._session_failed.clear()"
\* (112), _start_glib_loop (115), _create_session (116); createOk: whether
\* _create_session returns (it raises otherwise, before a request is made).
\* The receivers of requests made earlier stay registered on the session bus.
start(c, createOk) ==
    IF c.main = "idle"
    THEN IF c.o._running THEN [c EXCEPT !.ret = "start_true", !.starts = @ + 1]
         ELSE [c EXCEPT !.o._session_ready = FALSE, !.call = "start",
                        !.starts = @ + 1, !.main = "start_clear"]
    ELSE IF c.main = "start_clear"
    THEN [c EXCEPT !.o._session_failed = FALSE, !.main = "start_loop"]
    ELSE IF c.main = "start_loop"
    THEN [c EXCEPT !.loops = Append(@, "created"), !.o._glib_loop = Len(c.loops) + 1,
                   !.main = "start_create"]
    ELSE IF createOk
    THEN [c EXCEPT !.pending = Append(@, [kind |-> "create", session |-> None]),
                   !.main = "wait"]
    ELSE [c EXCEPT !.main = "cleanup_pipeline"]

\* "if self._session_ready.wait(timeout): self._running = True; return True"
wait_ready(c) ==
    [c EXCEPT !.o._running = TRUE, !.main = "idle", !.call = "none",
              !.ret = "start_true"]

\* stop(): self._running = False, then _cleanup()
screencast_stop(c) ==
    [c EXCEPT !.o._running = FALSE, !.call = "stop", !.main = "cleanup_pipeline"]

\* _cleanup, one line at a time: "if self._pipeline:" (356); 358 evaluates
\* self._pipeline again and then calls set_state(Gst.State.NULL) on that
\* pipeline, which blocks; "self._pipeline = None" (361); "self._appsink =
\* None" (362)
CleanupPipeline(c) ==
    IF c.main = "cleanup_pipeline"
    THEN [c EXCEPT !.main = IF c.o._pipeline # None THEN "pipeline_read"
                            ELSE "cleanup_fd"]
    ELSE IF c.main = "pipeline_read"
    THEN IF c.o._pipeline # None
         THEN [c EXCEPT !.mtmp = c.o._pipeline, !.main = "pipeline_null"]
         ELSE [c EXCEPT !.main = "pipeline_clear"]
    ELSE IF c.main = "pipeline_null"
    THEN [c EXCEPT !.pipelines[c.mtmp] = "NULL", !.mtmp = None,
                   !.main = "pipeline_clear"]
    ELSE IF c.main = "pipeline_clear"
    THEN [c EXCEPT !.o._pipeline = None, !.main = "appsink_clear"]
    ELSE [c EXCEPT !.o._appsink = None, !.main = "cleanup_fd"]

\* _cleanup: "if self._pipewire_fd is not None:" (364); 367 evaluates
\* self._pipewire_fd again and then calls os.close on that fd;
\* "self._pipewire_fd = None" (370)
CleanupFd(c) ==
    IF c.main = "cleanup_fd"
    THEN [c EXCEPT !.main = IF c.o._pipewire_fd # None THEN "fd_read"
                            ELSE "cleanup_session"]
    ELSE IF c.main = "fd_read"
    THEN [c EXCEPT !.mtmp = c.o._pipewire_fd, !.main = "fd_close"]
    ELSE IF c.main = "fd_close"
    THEN [c EXCEPT !.fds[c.mtmp] = "closed", !.mtmp = None, !.main = "fd_clear"]
    ELSE [c EXCEPT !.o._pipewire_fd = None, !.main = "cleanup_session"]

\* _cleanup: "if self._session_path:" (372); get_object(_PORTAL_BUS,
\* self._session_path) (375) evaluates the attribute again (an empty path
\* raises, "except Exception: pass"); session_iface.Close() (378) closes the
\* session of that path and blocks; "self._session_path = None" (381)
CleanupSession(c) ==
    IF c.main = "cleanup_session"
    THEN [c EXCEPT !.main = IF HasPath(c) THEN "session_read" ELSE "cleanup_loop"]
    ELSE IF c.main = "session_read"
    THEN IF HasPath(c)
         THEN [c EXCEPT !.mtmp = c.o._session_path, !.main = "session_close"]
         ELSE [c EXCEPT !.main = "session_clear"]
    ELSE IF c.main = "session_close"
    THEN [c EXCEPT !.sessions[c.mtmp] = "closed", !.mtmp = None,
                   !.main = "session_clear"]
    ELSE [c EXCEPT !.o._session_path = None, !.main = "cleanup_loop"]

\* _cleanup, "if self._glib_loop and self._glib_loop.is_running():" ... quit();
\* only the main thread assigns _glib_loop, and a loop found running stays so
\* until it is quit
CleanupLoop(c) ==
    IF c.o._glib_loop # None /\ c.loops[c.o._glib_loop] = "running"
    THEN [c EXCEPT !.loops[c.o._glib_loop] = "quit", !.o._glib_loop = None,
                   !.main = "cleanup_node"]
    ELSE [c EXCEPT !.main = "cleanup_node"]

\* _cleanup, "self._node_id = None" (390), then "self._latest_frame = None"
\* (391) and the return of start() or stop()
CleanupRest(c) ==
    IF c.main = "cleanup_node"
    THEN [c EXCEPT !.o._node_id = None, !.main = "cleanup_frame"]
    ELSE [c EXCEPT !.o._latest_frame = None, !.main = "idle", !.call = "none",
                   !.ret = IF c.call = "start" THEN "start_false" ELSE "stop"]

\* _on_create_session_response(response, results); handle: whether results
\* hold a session_handle.  Lines 188-193 (the path is assigned before it is
\* tested; a handle names a session the portal has opened), then the test of
\* the attribute at 194.
_on_create_session_response(c, response, handle) ==
    IF c.glib = "idle"
    THEN IF response # 0 THEN [c EXCEPT !.glib = "set_failed"]
         ELSE IF handle
         THEN [c EXCEPT !.sessions = Append(@, "open"),
                        !.o._session_path = Len(c.sessions) + 1,
                        !.glib = "create_check"]
         ELSE [c EXCEPT !.o._session_path = NoHandle, !.glib = "create_check"]
    ELSE IF HasPath(c) THEN [c EXCEPT !.glib = "select_read"]
         ELSE [c EXCEPT !.glib = "set_failed"]

\* _select_sources: "dbus.ObjectPath(self._session_path)" (212), which raises
\* out of the callback when the attribute holds no path by then, and then the
\* call of screencast.SelectSources with that path (211-226)
_select_sources(c) ==
    IF c.glib = "select_read"
    THEN IF HasPath(c) THEN [c EXCEPT !.gtmp = c.o._session_path, !.glib = "select_send"]
         ELSE [c EXCEPT !.glib = "idle"]
    ELSE [c EXCEPT !.pending = Append(@, [kind |-> "select", session |-> c.gtmp]),
                   !.gtmp = None, !.glib = "idle"]

\* _on_select_sources_response(response, results), up to _start_stream
_on_select_sources_response(c, response) ==
    IF response # 0 THEN [c EXCEPT !.glib = "set_failed"]
    ELSE [c EXCEPT !.glib = "stream_read"]

\* _start_stream: "dbus.ObjectPath(self._session_path)" (248), which raises out
\* of the callback when the attribute holds no path by then, and then the call
\* of screencast.Start with that path (247-260)
_start_stream(c) ==
    IF c.glib = "stream_read"
    THEN IF HasPath(c) THEN [c EXCEPT !.gtmp = c.o._session_path, !.glib = "stream_send"]
         ELSE [c EXCEPT !.glib = "idle"]
    ELSE [c EXCEPT !.pending = Append(@, [kind |-> "start", session |-> c.gtmp]),
                   !.gtmp = None, !.glib = "idle"]

\* _on_start_response(response, results) up to "self._node_id = ..."; streams:
\* whether results hold a stream.  At its end "self._session_ready.set()"
\* (297) once _start_gstreamer returned.
_on_start_response(c, response, streams) ==
    IF c.glib = "idle"
    THEN IF response # 0 \/ ~streams THEN [c EXCEPT !.glib = "set_failed"]
         ELSE [c EXCEPT !.o._node_id = 42, !.glib = "open_read"]
    ELSE [c EXCEPT !.o._session_ready = TRUE, !.glib = "idle"]

\* "self._session_failed.set()" and the return of the callback (190-191,
\* 196-197, 232-233, 267-268, 273-274, 291-292, 300)
SessionFailed(c) == [c EXCEPT !.o._session_failed = TRUE, !.gtmp = None, !.glib = "idle"]

\* _on_start_response, "dbus.ObjectPath(self._session_path)" (286), then the
\* call screencast.OpenPipeWireRemote(...).take() with that path, then the
\* assignment to self._pipewire_fd (285); ok: whether the portal hands out an fd
OpenPipeWireRemote(c, ok) ==
    IF c.glib = "open_read"
    THEN IF HasPath(c) THEN [c EXCEPT !.gtmp = c.o._session_path, !.glib = "open_call"]
         ELSE [c EXCEPT !.glib = "set_failed"]
    ELSE IF c.glib = "open_call"
    THEN IF ok THEN [c EXCEPT !.fds = Append(@, "open"), !.gtmp = Len(c.fds) + 1,
                              !.glib = "store_fd"]
         ELSE [c EXCEPT !.glib = "set_failed"]
    ELSE [c EXCEPT !.o._pipewire_fd = c.gtmp, !.gtmp = None, !.glib = "gst_fd"]

\* _start_gstreamer, one step at a time: the description reads
\* self._pipewire_fd and then self._node_id (308); Gst.parse_launch (315) builds
\* the pipeline, then self._pipeline is assigned; 316 evaluates self._pipeline and then assigns
\* self._appsink; 317 evaluates self._appsink and connects; 319 evaluates
\* self._pipeline and then calls set_state(Gst.State.PLAYING), which blocks
\* (319-321); playing: whether set_state succeeds.  The code tests neither
\* attribute: the description of a cleared object reads "fd=None" or "path=None".
\* fd is an integer property of pipewiresrc, which None cannot set, so that
\* description does not parse; path is a string property, and parses tells whether
\* parse_launch takes "path=None".  An attribute that is None by the time it is
\* used raises AttributeError, which _on_start_response catches like the other
\* failures.
_start_gstreamer(c, parses, playing) ==
    IF c.glib = "gst_fd"
    THEN [c EXCEPT !.gtmp = c.o._pipewire_fd, !.glib = "gst_node"]
    ELSE IF c.glib = "gst_node"
    THEN IF c.gtmp = None \/ (c.o._node_id = None /\ ~parses)
         THEN [c EXCEPT !.glib = "set_failed"]
         ELSE [c EXCEPT !.glib = "gst_parse"]
    ELSE IF c.glib = "gst_parse"
    THEN [c EXCEPT !.pipelines = Append(@, "NULL"), !.gtmp = Len(c.pipelines) + 1,
                   !.glib = "gst_assign"]
    ELSE IF c.glib = "gst_assign"
    THEN [c EXCEPT !.o._pipeline = c.gtmp, !.gtmp = None, !.glib = "appsink_read"]
    ELSE IF c.glib = "appsink_read"
    THEN IF c.o._pipeline = None THEN [c EXCEPT !.glib = "set_failed"]
         ELSE [c EXCEPT !.gtmp = c.o._pipeline, !.glib = "appsink_assign"]
    ELSE IF c.glib = "appsink_assign"
    THEN [c EXCEPT !.o._appsink = c.gtmp, !.gtmp = None, !.glib = "connect"]
    ELSE IF c.glib = "connect"
    THEN IF c.o._appsink = None THEN [c EXCEPT !.glib = "set_failed"]
         ELSE [c EXCEPT !.glib = "play_read"]
    ELSE IF c.glib = "play_read"
    THEN IF c.o._pipeline = None THEN [c EXCEPT !.glib = "set_failed"]
         ELSE [c EXCEPT !.gtmp = c.o._pipeline, !.glib = "play"]
    ELSE IF playing
    THEN [c EXCEPT !.pipelines[c.gtmp] = "PLAYING", !.gtmp = None, !.glib = "ready"]
    ELSE [c EXCEPT !.pipelines[c.gtmp] = "FAILED", !.gtmp = None,
                   !.glib = "set_failed"]

\* _on_new_sample: "self._latest_frame = (width, height, rgb_bytes)"
_on_new_sample(c) == [c EXCEPT !.o._latest_frame = 1]

CastFrame ==
    UNCHANGED <<factoryVars, threadVars, bulkVars, lcdVars, tlog, playerVars, zt, theme,
                driver, web>>

\* the main thread
StartCall(createOk) ==
    /\ \/ cast.main = "idle" /\ cast.starts < MaxStarts
       \/ cast.main \in {"start_clear", "start_loop", "start_create"}
    /\ cast' = start(cast, createOk)
    /\ CastFrame

WaitReady ==
    /\ cast.main = "wait"
    /\ cast.o._session_ready
    /\ cast' = wait_ready(cast)
    /\ CastFrame

\* the timeout of the wait elapses with the event not set ("if
\* self._session_failed.is_set()" only chooses the message logged)
WaitTimeout ==
    /\ cast.main = "wait"
    /\ ~cast.o._session_ready
    /\ cast' = [cast EXCEPT !.main = "cleanup_pipeline"]
    /\ CastFrame

StopCall ==
    /\ cast.main = "idle"
    /\ cast' = screencast_stop(cast)
    /\ CastFrame

\* _cleanup goes on by one step
Cleanup ==
    /\ cast.main \in {"cleanup_pipeline", "pipeline_read", "pipeline_null",
                      "pipeline_clear", "appsink_clear", "cleanup_fd", "fd_read",
                      "fd_close", "fd_clear", "cleanup_session", "session_read",
                      "session_close", "session_clear", "cleanup_loop",
                      "cleanup_node", "cleanup_frame"}
    /\ cast' = IF cast.main \in {"cleanup_pipeline", "pipeline_read", "pipeline_null",
                                 "pipeline_clear", "appsink_clear"}
               THEN CleanupPipeline(cast)
               ELSE IF cast.main \in {"cleanup_fd", "fd_read", "fd_close", "fd_clear"}
               THEN CleanupFd(cast)
               ELSE IF cast.main \in {"cleanup_session", "session_read",
                                      "session_close", "session_clear"}
               THEN CleanupSession(cast)
               ELSE IF cast.main = "cleanup_loop" THEN CleanupLoop(cast)
               ELSE CleanupRest(cast)
    /\ CastFrame

\* the GLib thread: threading.Thread(target=self._glib_loop.run)
LoopRun ==
    /\ \E l \in 1..Len(cast.loops) :
          /\ cast.loops[l] = "created"
          /\ cast' = [cast EXCEPT !.loops[l] = "running"]
    /\ CastFrame

\* the Response signal of an outstanding request is dispatched by a running
\* loop, one callback at a time; the portal answers 0 only for a session it has
\* not closed
CreateSessionResponse(i, response, handle) ==
    /\ LoopRunning(cast) /\ cast.glib = "idle"
    /\ cast.pending[i].kind = "create"
    /\ cast' = _on_create_session_response(Dispatched(cast, i), response, handle)
    /\ CastFrame

SelectSourcesResponse(i, response) ==
    /\ LoopRunning(cast) /\ cast.glib = "idle"
    /\ cast.pending[i].kind = "select"
    /\ response = 0 => cast.sessions[cast.pending[i].session] = "open"
    /\ cast' = _on_select_sources_response(Dispatched(cast, i), response)
    /\ CastFrame

StartResponse(i, response, streams) ==
    /\ LoopRunning(cast) /\ cast.glib = "idle"
    /\ cast.pending[i].kind = "start"
    /\ response = 0 => cast.sessions[cast.pending[i].session] = "open"
    /\ cast' = _on_start_response(Dispatched(cast, i), response, streams)
    /\ CastFrame

\* a callback, once entered, runs on, one step at a time
CreateSessionCheck ==
    /\ cast.glib = "create_check"
    /\ cast' = _on_create_session_response(cast, 0, TRUE)
    /\ CastFrame

SelectSources ==
    /\ cast.glib \in {"select_read", "select_send"}
    /\ cast' = _select_sources(cast)
    /\ CastFrame

StartStream ==
    /\ cast.glib \in {"stream_read", "stream_send"}
    /\ cast' = _start_stream(cast)
    /\ CastFrame

\* the portal hands out an fd only for a session it has not closed
StartResponseOpen(ok) ==
    /\ cast.glib \in {"open_read", "open_call", "store_fd"}
    /\ (cast.glib = "open_call" /\ ok) => cast.sessions[cast.gtmp] = "open"
    /\ cast' = OpenPipeWireRemote(cast, ok)
    /\ CastFrame

StartResponseGstreamer(parses, playing) ==
    /\ cast.glib \in {"gst_fd", "gst_node", "gst_parse", "gst_assign", "appsink_read",
                      "appsink_assign", "connect", "play_read", "play"}
    /\ cast' = _start_gstreamer(cast, parses, playing)
    /\ CastFrame

StartResponseReady ==
    /\ cast.glib = "ready"
    /\ cast' = _on_start_response(cast, 0, TRUE)
    /\ CastFrame

CallbackFailed ==
    /\ cast.glib = "set_failed"
    /\ cast' = SessionFailed(cast)
    /\ CastFrame

\* the GStreamer thread: a pipeline that is playing delivers a sample
NewSample ==
    /\ \E p \in 1..Len(cast.pipelines) : cast.pipelines[p] = "PLAYING"
    /\ cast' = _on_new_sample(cast)
    /\ CastFrame

\* portal responses: 0 success, 1 cancelled by the user
PortalResponses == {0, 1}

CastNext ==
    \/ \E createOk \in BOOLEAN : StartCall(createOk)
    \/ WaitReady
    \/ WaitTimeout
    \/ StopCall
    \/ Cleanup
    \/ LoopRun
    \/ \E i \in 1..Len(cast.pending), response \in PortalResponses, handle \in BOOLEAN :
          CreateSessionResponse(i, response, handle)
    \/ CreateSessionCheck
    \/ SelectSources
    \/ \E i \in 1..Len(cast.pending), response \in PortalResponses :
          SelectSourcesResponse(i, response)
    \/ StartStream
    \/ \E i \in 1..Len(cast.pending), response \in PortalResponses, streams \in BOOLEAN :
          StartResponse(i, response, streams)
    \/ \E ok \in BOOLEAN : StartResponseOpen(ok)
    \/ \E parses, playing \in BOOLEAN : StartResponseGstreamer(parses, playing)
    \/ StartResponseReady
    \/ CallbackFailed
    \/ NewSample

\* ===========================================================================
\* UCThemeWeb preview downloads (qt_components/uc_theme_web.py).  load_themes
\* runs on the GUI thread, each download_previews worker on a thread of its own.
\* ===========================================================================
\* load_themes calls after which no further call is made
MaxLoads == 3
\* previews one load_themes call can find missing
MaxMissing == 2

\* UCThemeWeb.__init__: "_cancel_previews = threading.Event()" is the first
\* event (events holds the flag of every Event created, _cancel_previews the
\* one the attribute refers to), "_preview_thread = None".  workers: per
\* thread started, the previews left in its list, where it stands ("check",
\* "test", "download", "done"), the Event it has read from the attribute and
\* not yet tested (ev), the load_themes call that started it (gen), the number
\* of load_themes calls that had returned when it last decided to download
\* (req), and the downloads it decided on after a later call had returned.
\* missing: the list _start_preview_downloads has collected and not yet handed
\* to a thread.  No lock protects _cancel_previews, so each thread goes on by
\* one access of it at a time.
NoWeb ==
    [_cancel_previews |-> 1, events |-> <<FALSE>>, _preview_thread |-> None,
     workers |-> <<>>, main |-> "idle", loads |-> 0, returned |-> 0, missing |-> 0]

WebInit == web = NoWeb

\* _cancel_preview_downloads: "self._cancel_previews.set()" (241), then
\* "self._preview_thread = None" (242)
_cancel_preview_downloads(w) ==
    IF w.main = "idle"
    THEN [w EXCEPT !.events[w._cancel_previews] = TRUE, !.main = "cancelled"]
    ELSE [w EXCEPT !._preview_thread = None, !.main = "loading"]

\* _start_preview_downloads with missing previews to fetch: it returns when
\* none is missing, else a new Event replaces self._cancel_previews (254);
\* after that the thread running download_previews over the list is built and
\* started (275-276), and runs from then on
_start_preview_downloads(w, missing) ==
    IF w.main = "loading"
    THEN IF missing = 0 THEN [w EXCEPT !.main = "returning"]
         ELSE [w EXCEPT !.events = Append(@, FALSE),
                        !._cancel_previews = Len(w.events) + 1,
                        !.missing = missing, !.main = "starting"]
    ELSE [w EXCEPT !.workers = Append(@, [left |-> w.missing, pc |-> "check",
                                          ev |-> None, gen |-> w.loads,
                                          req |-> 0, late |-> 0]),
                   !._preview_thread = Len(w.workers) + 1,
                   !.missing = 0, !.main = "returning"]

\* download_previews, the head of the loop (265-268), one step at a time: the
\* list is exhausted, or self._cancel_previews is evaluated; then is_set() of
\* that Event returns and the worker returns or goes on to call
\* downloader.download_preview_png(theme_id)
download_previews(w, t) ==
    IF w.workers[t].pc = "check"
    THEN IF w.workers[t].left = 0 THEN [w EXCEPT !.workers[t].pc = "done"]
         ELSE [w EXCEPT !.workers[t].ev = w._cancel_previews,
                        !.workers[t].pc = "test"]
    ELSE IF w.events[w.workers[t].ev]
    THEN [w EXCEPT !.workers[t].pc = "done", !.workers[t].ev = None]
    ELSE [w EXCEPT !.workers[t].pc = "download", !.workers[t].ev = None,
                   !.workers[t].req = w.returned,
                   !.workers[t].late = @ + IF w.workers[t].gen < w.returned
                                           THEN 1 ELSE 0]

WebFrame ==
    UNCHANGED <<factoryVars, threadVars, bulkVars, lcdVars, tlog, playerVars, zt, theme,
                driver, cast>>

\* load_themes, "self._cancel_preview_downloads()" and _clear_grid (129-130)
LoadThemes ==
    /\ \/ web.main = "idle" /\ web.loads < MaxLoads
       \/ web.main = "cancelled"
    /\ web' = [_cancel_preview_downloads(web) EXCEPT
                  !.loads = IF web.main = "idle" THEN @ + 1 ELSE @]
    /\ WebFrame

\* load_themes from _populate_grid to the new Event of
\* _start_preview_downloads, or to the end of it when no preview is missing
LoadThemesStart(missing) ==
    /\ web.main = "loading"
    /\ web' = _start_preview_downloads(web, missing)
    /\ WebFrame

\* _start_preview_downloads from the new Event to the started thread
LoadThemesThread ==
    /\ web.main = "starting"
    /\ web' = _start_preview_downloads(web, web.missing)
    /\ WebFrame

\* load_themes returns
LoadThemesReturn ==
    /\ web.main = "returning"
    /\ web' = [web EXCEPT !.main = "idle", !.returned = web.loads]
    /\ WebFrame

\* a worker at the head of its loop
WorkerCheck(t) ==
    /\ web.workers[t].pc \in {"check", "test"}
    /\ web' = download_previews(web, t)
    /\ WebFrame

\* download_preview_png returns
WorkerDownloaded(t) ==
    /\ web.workers[t].pc = "download"
    /\ web' = [web EXCEPT !.workers[t].pc = "check", !.workers[t].left = @ - 1]
    /\ WebFrame

WebNext ==
    \/ LoadThemes
    \/ \E missing \in 0..MaxMissing : LoadThemesStart(missing)
    \/ LoadThemesThread
    \/ LoadThemesReturn
    \/ \E t \in 1..Len(web.workers) : WorkerCheck(t)
    \/ \E t \in 1..Len(web.workers) : WorkerDownloaded(t)

\* the state of the file, SCSI and GUI objects a specification does not exercise
GuiInit ==
    /\ CastInit
    /\ WebInit

FileInit ==
    /\ ZtInit
    /\ ThemeInit
    /\ DriverInit
    /\ GuiInit

\* ===========================================================================
\* Two threads using the factory at once (device_factory.py has no lock)
\* ===========================================================================
Threads == {1, 2}

NoLocals == [d |-> BareDevice, key |-> "", new |-> None, ret |-> None, tr |-> None,
             ok |-> FALSE, exc |-> ""]

\* cls._senders[key] = value
Put(c, k, v) ==
    IF k \in Keys(c) THEN [c EXCEPT ![Lookup(c, k)].sender = v]
    ELSE Append(c, [key |-> k, sender |-> v])

Goto(t, label) == pc' = [pc EXCEPT ![t] = label]

\* get_sender: key = cls._device_key(device_info); if key not in cls._senders
T_GetSenderCheck(t, d) ==
    /\ pc[t] = "idle"
    /\ loc' = [loc EXCEPT ![t] = [NoLocals EXCEPT !.d = d, !.key = _device_key(d)]]
    /\ Goto(t, IF _device_key(d) \in Keys(senders) THEN "gs_return" ELSE "gs_create")
    /\ UNCHANGED <<factoryVars, bulkVars, restVars>>

\* get_sender: the call cls.create_sender(device_info)
T_CreateSender(t) ==
    LET c == create_sender(loc[t].d) IN
    /\ pc[t] = "gs_create"
    /\ IF c.exc # ""
       THEN /\ loc' = [loc EXCEPT ![t].exc = c.exc]
            /\ Goto(t, "raised")
            /\ UNCHANGED obj
       ELSE /\ obj' = Append(obj, [c.new EXCEPT !.forTriple = Triple(loc[t].d)])
            /\ loc' = [loc EXCEPT ![t].new = Len(obj) + 1]
            /\ Goto(t, "gs_store")
    /\ UNCHANGED <<senders, transports, backend, issued, last, bulkVars, restVars>>

\* get_sender: the store cls._senders[key] = <the sender just created>
T_Store(t) ==
    /\ pc[t] = "gs_store"
    /\ senders' = Put(senders, loc[t].key, loc[t].new)
    /\ Goto(t, "gs_return")
    /\ UNCHANGED <<obj, transports, backend, issued, last, loc, bulkVars, restVars>>

\* get_sender: return cls._senders[key]
T_Return(t) ==
    /\ pc[t] = "gs_return"
    /\ loc' = [loc EXCEPT ![t].ret = Get(senders, loc[t].key)]
    /\ Goto(t, "got")
    /\ UNCHANGED <<factoryVars, bulkVars, restVars>>

\* sender.send(...): ScsiSender.send goes straight to send_image_to_device;
\* HidSender.send tests self._transport is None
T_SendCheck(t) ==
    /\ pc[t] = "got"
    /\ Goto(t, IF obj[loc[t].ret].cls = "ScsiSender" THEN "sd_io"
               ELSE IF obj[loc[t].ret].transport = None THEN "sd_create"
               ELSE "sd_call")
    /\ UNCHANGED <<factoryVars, loc, bulkVars, restVars>>

\* HidSender.send: self._transport = self._create_transport()
T_CreateTransport(t) ==
    LET c == _create_transport(backend) IN
    /\ pc[t] = "sd_create"
    /\ IF c.exc # ""
       THEN /\ loc' = [loc EXCEPT ![t].exc = c.exc]
            /\ Goto(t, "raised")
            /\ UNCHANGED <<obj, transports>>
       ELSE /\ transports' = Append(transports, Transport(c.cls))
            /\ obj' = [obj EXCEPT ![loc[t].ret].transport = Len(transports) + 1]
            /\ Goto(t, "sd_open")
            /\ UNCHANGED loc
    /\ UNCHANGED <<senders, backend, issued, last, bulkVars, restVars>>

\* HidSender.send: self._transport.open()
T_Open(t, openOk) ==
    /\ pc[t] = "sd_open"
    /\ IF openOk
       THEN /\ Goto(t, "sd_call")
            /\ UNCHANGED loc
       ELSE /\ loc' = [loc EXCEPT ![t].exc = "TransportOpenFailed"]
            /\ Goto(t, "raised")
    /\ transports' = [transports EXCEPT
                         ![obj[loc[t].ret].transport] = TransportOpen(@, openOk)]
    /\ UNCHANGED <<senders, obj, backend, issued, last, bulkVars, restVars>>

\* HidSender.send: the call send_image_to_hid_device(self._transport, ...) begins
T_SendBegin(t) ==
    /\ pc[t] = "sd_call"
    /\ loc' = [loc EXCEPT ![t].tr = obj[loc[t].ret].transport]
    /\ Goto(t, "sd_io")
    /\ UNCHANGED <<factoryVars, bulkVars, restVars>>

\* send_image_to_device / send_image_to_hid_device returns; send returns its result
T_SendEnd(t, result) ==
    /\ pc[t] = "sd_io"
    /\ loc' = [loc EXCEPT ![t].ok = result]
    /\ Goto(t, "done")
    /\ UNCHANGED <<factoryVars, bulkVars, restVars>>

\* two idle threads, an empty cache, either USB backend or none installed
\* the state of the objects a specification does not exercise
RestInit ==
    /\ LcdInit
    /\ tlog = <<>>
    /\ PlayerInit
    /\ FileInit

InitConc ==
    /\ FactoryInit
    /\ RestInit
    /\ BulkInit
    /\ pc = [t \in Threads |-> "idle"]
    /\ loc = [t \in Threads |-> NoLocals]
    /\ backend \in Backends
    /\ geometry = CHOOSE g \in GeometryTables : TRUE

ConcNext ==
    \E t \in Threads :
        \/ \E d \in Descriptors : T_GetSenderCheck(t, d)
        \/ T_CreateSender(t)
        \/ T_Store(t)
        \/ T_Return(t)
        \/ T_SendCheck(t)
        \/ T_CreateTransport(t)
        \/ \E openOk \in BOOLEAN : T_Open(t, openOk)
        \/ T_SendBegin(t)
        \/ \E result \in BOOLEAN : T_SendEnd(t, result)

SpecConc == InitConc /\ [][ConcNext]_vars

ThreadInit ==
    /\ pc = <<>>
    /\ loc = <<>>

\* HidSender(0x0416, 0x530A, 2) as constructed, under each USB backend
InitHid ==
    /\ senders = <<>>
    /\ obj = <<HidSender(1046, 21258, 2)>>
    /\ transports = <<>>
    /\ issued = {}
    /\ last = NoCall
    /\ ThreadInit
    /\ BulkInit
    /\ RestInit
    /\ backend \in Backends
    /\ geometry = CHOOSE g \in GeometryTables : TRUE

SpecHid == InitHid /\ [][HidNext]_vars

\* a player of either class as constructed from a file of 0..MaxFrames frames or
\* of LongAnimation frames
InitPlayer ==
    /\ FactoryInit
    /\ ThreadInit
    /\ BulkInit
    /\ LcdInit
    /\ tlog = <<>>
    /\ backend = "pyusb"
    /\ geometry = CHOOSE g \in GeometryTables : TRUE
    /\ player \in {LoadedPlayer(cls, n) : cls \in PlayerClasses,
                                          n \in 0..MaxFrames \cup {LongAnimation}}
    /\ mcall = NoPlayerCall
    /\ FileInit

SpecPlayer == InitPlayer /\ [][PlayerNext]_vars

\* an LCDDeviceImplementation as constructed, for a known and for an unknown key
InitLcd ==
    /\ FactoryInit
    /\ ThreadInit
    /\ BulkInit
    /\ backend = "pyusb"
    /\ geometry = CHOOSE g \in GeometryTables : TRUE
    /\ lcd \in {LCDDeviceImplementation(k) : k \in {"thermalright_lcd_v1", "no_such_key"}}
    /\ lcall = NoLcdCall
    /\ tlog = <<>>
    /\ PlayerInit
    /\ FileInit

SpecLcd == InitLcd /\ [][LcdNext]_vars

\* no Theme.zt file loaded yet
InitZt ==
    /\ FactoryInit
    /\ RestInit
    /\ ThreadInit
    /\ BulkInit
    /\ backend = "pyusb"
    /\ geometry = CHOOSE g \in GeometryTables : TRUE

ZtNext == \E file \in ZtFiles : LoadThemeZt(file)

SpecZt == InitZt /\ [][ZtNext]_vars

\* one call of ThemeIO about to be made, with its arguments
InitTheme ==
    /\ FactoryInit
    /\ ThreadInit
    /\ BulkInit
    /\ LcdInit
    /\ tlog = <<>>
    /\ PlayerInit
    /\ ZtInit
    /\ DriverInit
    /\ GuiInit
    /\ backend = "pyusb"
    /\ geometry = CHOOSE g \in GeometryTables : TRUE
    /\ theme \in ThemeCalls

ThemeNext ==
    \/ ExportImport
    \/ ImportTheme
    \/ StringRoundTrip

SpecTheme == InitTheme /\ [][ThemeNext]_vars

\* a driver that is not initialized, no header built yet
InitScsi ==
    /\ FactoryInit
    /\ RestInit
    /\ ThreadInit
    /\ BulkInit
    /\ backend = "pyusb"
    /\ geometry = CHOOSE g \in GeometryTables : TRUE

ScsiNext ==
    \/ \E initialized \in BOOLEAN : NewDriver(initialized)
    \/ InitDevice
    \/ \E cmd \in HeaderCmds, size \in HeaderSizes : BuildHeader(cmd, size)

SpecScsi == InitScsi /\ [][ScsiNext]_vars

\* a PipeWireScreenCast as constructed, nothing started
InitCast ==
    /\ FactoryInit
    /\ RestInit
    /\ ThreadInit
    /\ BulkInit
    /\ backend = "pyusb"
    /\ geometry = CHOOSE g \in GeometryTables : TRUE

SpecCast == InitCast /\ [][CastNext]_vars

\* a UCThemeWeb panel as constructed, no themes loaded
InitWeb ==
    /\ FactoryInit
    /\ RestInit
    /\ ThreadInit
    /\ BulkInit
    /\ backend = "pyusb"
    /\ geometry = CHOOSE g \in GeometryTables : TRUE

SpecWeb == InitWeb /\ [][WebNext]_vars

\* a BulkDevice as constructed, with either geometry table
InitBulk ==
    /\ FactoryInit
    /\ RestInit
    /\ ThreadInit
    /\ BulkInit
    /\ backend = "pyusb"
    /\ geometry \in GeometryTables

SpecBulk == InitBulk /\ [][BulkNext]_vars

\* an empty cache, either USB backend or none installed
Init ==
    /\ FactoryInit
    /\ RestInit
    /\ ThreadInit
    /\ BulkInit
    /\ backend \in Backends
    /\ geometry = CHOOSE g \in GeometryTables : TRUE

Spec == Init /\ [][Next]_vars

\* ---------------------------------------------------------------------------
\* Claims about the sender cache (specification Spec: calls made one at a time)
\* ---------------------------------------------------------------------------

\* C1: get_sender calls with the same (vid, pid, path) and no removal of it in between
\* return one and the same instance; an instance is only ever returned for the
\* (vid, pid, path) it was created for, so calls with different keys return different
\* instances; get_cached_count() is the number of distinct keys handed out and not
\* removed since.
C1_SenderCaching ==
    /\ \A p, q \in issued : p[1] = q[1] => p[2] = q[2]
    /\ (last.op = "get_sender" /\ last.exc = "")
           => obj[last.ret].forTriple = Triple(last.d)
    /\ get_cached_count = Cardinality({p[1] : p \in issued})

\* a get_sender call answered from the cache while two keys are cached
C1_Witness ==
    /\ last.op = "get_sender" /\ last.exc = ""
    /\ last.ret \in Values(last.before)
    /\ get_cached_count = 2

\* C4 (as claimed): when transport.open() fails inside send, the sender is evicted: it
\* is no longer cached and the cache is one entry smaller than before the call.
C4_EvictedOnOpenFailure ==
    (last.op = "send" /\ last.exc = "TransportOpenFailed")
        => /\ last.sid \notin Values(senders)
           /\ get_cached_count = Len(last.before) - 1

\* C5 (as claimed): get_sender on a key that is not cached, for each pixel transport
\* scsi, hid, bulk and led_hid, returns a sender whose protocol is the descriptor's.
C5_SenderForEveryTransport ==
    (/\ last.op = "get_sender"
     /\ _device_key(last.d) \notin Keys(last.before)
     /\ "protocol" \in DOMAIN last.d
     /\ last.d.protocol \in Protocols)
        => /\ last.exc = ""
           /\ protocol(obj[last.ret]) = last.d.protocol

\* C6: after close_all() the cache is empty and every sender that was cached has had
\* close() called on it exactly once and holds no transport, whether or not the close
\* of a transport raised.
C6_CloseAllDrains ==
    last.op = "close_all"
        => /\ get_cached_count = 0
           /\ \A s \in Values(last.before) :
                 /\ last.objBefore[s].closeCalls = 0
                 /\ obj[s].closeCalls = 1
                 /\ obj[s].transport = None

\* close_all() over two cached senders, during which a transport's close raised
C6_Witness ==
    /\ last.op = "close_all"
    /\ Len(last.before) = 2
    /\ last.closeErr # {}

\* C7: remove_sender(d) pops the entry cached under d's key and closes its sender
\* once, leaving every other entry, sender and transport as it was; it changes nothing
\* when the key is not cached; a sender that was removed is never cached again, so a
\* later get_sender on the key returns a sender that was never closed.
C7_RemoveSender ==
    /\ last.op = "remove_sender" =>
          IF \E i \in 1..Len(last.before) :
                 obj[last.before[i].sender].forTriple = Triple(last.d)
          THEN LET i == CHOOSE i \in 1..Len(last.before) :
                            obj[last.before[i].sender].forTriple = Triple(last.d)
                   sid == last.before[i].sender
               IN
               /\ get_cached_count = Len(last.before) - 1
               /\ senders = SelectSeq(last.before, LAMBDA e : e.sender # sid)
               /\ obj[sid].closeCalls = last.objBefore[sid].closeCalls + 1
               /\ obj[sid].transport = None
               /\ \A s \in 1..Len(obj) : s # sid => obj[s] = last.objBefore[s]
               /\ \A t \in 1..Len(transports) :
                     t # last.objBefore[sid].transport => transports[t] = last.trBefore[t]
          ELSE /\ senders = last.before
               /\ obj = last.objBefore
               /\ transports = last.trBefore
    /\ \A s \in Values(senders) : obj[s].closeCalls = 0
    /\ (last.op = "get_sender" /\ last.exc = "") => obj[last.ret].closeCalls = 0

\* get_sender on a key whose earlier sender was removed and closed
C7_Witness ==
    /\ last.op = "get_sender" /\ last.exc = ""
    /\ \E s \in 1..Len(obj) :
          /\ s # last.ret
          /\ obj[s].forTriple = Triple(last.d)
          /\ obj[s].closeCalls = 1

\* ---------------------------------------------------------------------------
\* Claims about BulkDevice (specification SpecBulk: calls made one at a time)
\* ---------------------------------------------------------------------------
\* a write of the 64-byte handshake probe, and of a 64-byte frame header (mode 2)
IsProbe(w) == w.kind = "bytes" /\ w.len = 64 /\ w.bytes = _HANDSHAKE_PAYLOAD
IsHeader(w) == w.kind = "bytes" /\ w.len = 64 /\ w.bytes[57] = 2
IsZlp(w) == w.kind = "bytes" /\ w.len = 0

\* the writes of the frame of the last send_frame call: what the call added to the
\* wire, less the handshake probe when the call had to make the handshake
CallWrites ==
    SubSeq(wire, (IF bcall.opened THEN 0 ELSE bcall.wireBefore) + 1, Len(wire))
LastFrame == IF bcall.handshook THEN Tail(CallWrites) ELSE CallWrites

\* C8: the first write issued on a device after its open is the 64-byte handshake
\* probe: an open device has been written to, the first write since the open is the
\* probe, and so every frame header comes after it.
C8_HandshakeFirst ==
    /\ bulk._dev # None => Len(wire) >= 1
    /\ Len(wire) >= 1 => IsProbe(wire[1])
    /\ \A i \in 1..Len(wire) : IsHeader(wire[i]) => i > 1

\* send_frame on a device that was not open, ending with the frame on the wire
C8_Witness ==
    /\ bcall.op = "send_frame" /\ ~bcall.wasOpen /\ bcall.ret
    /\ IsHeader(wire[2])

\* C9: a send_frame of n bytes that returns True has written one 64-byte header, then
\* ceil(n / 16384) payload writes of 1..16384 bytes that follow one another from offset
\* 0 to n, then one zero-length packet, each of which returned; frames follow one
\* another on the wire without interleaving.
C9_FrameLayout ==
    /\ (bcall.op = "send_frame" /\ bcall.ret) =>
          LET f == LastFrame
              n == bcall.data_size
              k == Len(f)
          IN
          /\ k = 2 + ((n + 16383) \div 16384)
          /\ IsHeader(f[1]) /\ IsZlp(f[k])
          /\ \A i \in 1..k : f[i].ok
          /\ \A i \in 2..(k - 1) :
                /\ f[i].kind = "slice"
                /\ f[i].len >= 1 /\ f[i].len <= 16384
                /\ f[i].off = IF i = 2 THEN 0 ELSE f[i - 1].off + f[i - 1].len
          /\ IF k = 2 THEN n = 0 ELSE f[k - 1].off + f[k - 1].len = n
    /\ \A i, j \in 1..Len(wire) :
          (i < j /\ wire[i].frame > 0 /\ wire[j].frame > 0)
              => wire[i].frame <= wire[j].frame

\* a two-chunk frame sent after an earlier frame on the same open device
C9_Witness ==
    /\ bcall.op = "send_frame" /\ bcall.ret
    /\ bcall.data_size = 16385
    /\ bcall.wireBefore >= 3

\* C10: when the k-th write of a frame raises, send_frame returns False without
\* raising, the failed write is the last one on the wire (no later chunk, no ZLP),
\* and the device stays open with its interface claimed; the send_frame call after
\* it goes neither through _open nor through handshake and starts with its header.
C10_WriteFailureIsTransient ==
    /\ (bcall.op = "send_frame" /\ bcall.failedAt > 0) =>
          /\ bcall.exc = "" /\ ~bcall.ret
          /\ bulk._dev # None /\ bulk._ep_out # None /\ usb.claimed
          /\ Len(LastFrame) = bcall.failedAt
          /\ \A i \in 1..Len(LastFrame) : LastFrame[i].ok <=> i < bcall.failedAt
    /\ (bcall.op = "send_frame" /\ bcall.afterFailure) =>
          /\ ~bcall.opened /\ ~bcall.handshook /\ bcall.exc = ""
          /\ IsHeader(wire[bcall.wireBefore + 1])

\* a frame sent in full right after a frame that a failed payload write cut short
C10_Witness ==
    /\ bcall.op = "send_frame" /\ bcall.afterFailure /\ bcall.ret
    /\ wire[bcall.wireBefore].kind = "slice" /\ ~wire[bcall.wireBefore].ok

\* whether the handler accepts a handshake response
Accepted(resp) == resp.len >= 41 /\ resp.b24 # 0

\* C11: a handshake that reads fewer than 41 bytes, or a response whose byte 24 is 0,
\* returns a result with no resolution and model_id 0 and leaves pm, sub_type, width,
\* height and use_jpeg of the device as they were before the call.
C11_FailedHandshake ==
    (bcall.op = "handshake" /\ bcall.exc = "" /\ ~Accepted(bulk._raw_handshake))
        => /\ bcall.result.resolution = <<>>
           /\ bcall.result.model_id = 0
           /\ DeviceMode(bulk) = bcall.devBefore

\* a short response carrying PM 5, read on a device whose mode an earlier handshake set
C11_Witness ==
    /\ bcall.op = "handshake" /\ bcall.exc = ""
    /\ bulk._raw_handshake.len < 41 /\ bulk._raw_handshake.b24 = 5
    /\ bcall.devBefore[1] = 32

\* C12: once a handshake has succeeded with PM = resp[24], use_jpeg is false exactly
\* when PM is 32, and the header of every send_frame carries cmd 3 when the PM of the
\* last successful handshake is 32 and cmd 2 otherwise.
C12_CommandFollowsPm ==
    /\ bulk.pm # 0 => (bulk.use_jpeg <=> bulk.pm # 32)
    /\ (bcall.op = "send_frame" /\ bcall.exc = "" /\ bulk.pm # 0)
           => UnpackLE32(LastFrame[1].bytes, 4) = IF bulk.pm = 32 THEN 3 ELSE 2

\* a frame with cmd 3 sent on a device that an earlier call shook hands with (PM 32)
C12_Witness ==
    /\ bcall.op = "send_frame" /\ bcall.ret /\ ~bcall.handshook
    /\ bulk.pm = 32
    /\ UnpackLE32(LastFrame[1].bytes, 4) = 3

\* C13: a handshake whose response is accepted reports
\* fbl_to_resolution(pm_to_fbl(PM, SUB), PM) when PM is one of 5, 7, 9, 10, 11, 12, 32,
\* 64, 65 or when PM is 1 and SUB is 48 or 49, and 480x480 for every other PM; its
\* model_id is PM and the device's width and height are the reported resolution.
C13_Resolution ==
    (bcall.op = "handshake" /\ bcall.exc = "" /\ Accepted(bulk._raw_handshake)) =>
        LET pm == bulk._raw_handshake.b24
            sub == bulk._raw_handshake.b36
            expected ==
                IF pm \in {5, 7, 9, 10, 11, 12, 32, 64, 65} \/ (pm = 1 /\ sub \in {48, 49})
                THEN fbl_to_resolution(pm_to_fbl(pm, sub), pm)
                ELSE <<480, 480>>
        IN
        /\ bcall.result.resolution = expected
        /\ bcall.result.model_id = pm
        /\ <<bulk.width, bulk.height>> = expected
        /\ <<bulk.pm, bulk.sub_type>> = <<pm, sub>>

\* a handshake that read PM 1 with SUB 48, after one that read PM 1 with SUB 0
C13_Witness ==
    /\ bcall.op = "handshake" /\ bcall.exc = ""
    /\ bulk._raw_handshake = Resp(1024, 1, 48)
    /\ bcall.devBefore = <<1, 0, 480, 480, TRUE>>
    /\ bcall.result.resolution # <<480, 480>>

\* the number of payload bytes among the writes f that returned
RECURSIVE PayloadBytes(_)
PayloadBytes(f) ==
    IF f = <<>> THEN 0
    ELSE (IF Head(f).kind = "slice" /\ Head(f).ok THEN Head(f).len ELSE 0)
             + PayloadBytes(Tail(f))

\* C14: the header send_frame writes is 64 bytes: 12 34 56 78, then cmd, width and
\* height at offsets 4, 8 and 12, 2 at offset 56 and len(image_data) at offset 60, each
\* as an unsigned 32-bit little-endian value, every other byte zero; when the frame is
\* sent in full, the length field is the number of payload bytes written after it.
C14_HeaderLayout ==
    (bcall.op = "send_frame" /\ bcall.exc = "") =>
        LET h == LastFrame[1].bytes IN
        /\ LastFrame[1].kind = "bytes" /\ Len(h) = 64
        /\ \A i \in 1..64 : h[i] \in 0..255
        /\ SubSeq(h, 1, 4) = <<18, 52, 86, 120>>
        /\ UnpackLE32(h, 4) = IF bulk.use_jpeg THEN 2 ELSE 3
        /\ UnpackLE32(h, 8) = bulk.width
        /\ UnpackLE32(h, 12) = bulk.height
        /\ \A i \in 17..56 : h[i] = 0
        /\ UnpackLE32(h, 56) = 2
        /\ UnpackLE32(h, 60) = bcall.data_size
        /\ bcall.ret => PayloadBytes(LastFrame) = UnpackLE32(h, 60)

\* a two-chunk frame sent in full to a panel whose height does not fit in one byte
C14_Witness ==
    /\ bcall.op = "send_frame" /\ bcall.ret
    /\ bcall.data_size = 16385
    /\ bulk.height = 320

\* C15 (as claimed): no call leaves the USB interface claimed on a way out that is not
\* an open device: an _open that raises because a bulk endpoint is missing has released
\* the interface it claimed, and after close() no interface is claimed.
C15_ReleasedOnEveryExit ==
    /\ bcall.exc = "RuntimeError" => ~usb.claimed
    /\ bcall.op = "close" => ~usb.claimed

\* ---------------------------------------------------------------------------
\* Claims about LCDDeviceImplementation (specification SpecLcd)
\* ---------------------------------------------------------------------------
\* C16 (as claimed): pixels are serialised big-endian exactly when the panel is 320x320
\* and the FBL detected is 51 or 53, and little-endian in every other state.
C16_BigEndianIffSpiMode2 ==
    (pixel_byte_order(lcd) = ">")
        <=> (resolution(lcd) = <<320, 320>> /\ lcd.fbl \in {51, 53})

\* the 16-bit value that two bytes encode in a byte order
UnpackH(order, bytes) ==
    IF order = ">" THEN 256 * bytes[1] + bytes[2] ELSE bytes[1] + 256 * bytes[2]

\* C17: rgb_to_bytes(r, g, b) returns two bytes that encode, in the byte order of the
\* implementation, the RGB565 value with the top 5 bits of r in bits 11..15, the top 6
\* bits of g in bits 5..10 and the top 5 bits of b in bits 0..4; pure red is 0xF800,
\* pure green 0x07E0, pure blue 0x001F, and on a 320x320 panel pure red is F8 00.
C17_Rgb565 ==
    lcall.op = "rgb_to_bytes" =>
        LET r == lcall.args[1]
            g == lcall.args[2]
            b == lcall.args[3]
            v == UnpackH(pixel_byte_order(lcd), lcall.ret)
        IN
        /\ Len(lcall.ret) = 2
        /\ \A i \in 1..2 : lcall.ret[i] \in 0..255
        /\ v = 2048 * (r \div 8) + 32 * (g \div 4) + (b \div 8)
        /\ lcall.args = <<255, 0, 0>> => v = 63488
        /\ lcall.args = <<0, 255, 0>> => v = 2016
        /\ lcall.args = <<0, 0, 255>> => v = 31
        /\ (lcall.args = <<255, 0, 0>> /\ resolution(lcd) = <<320, 320>>)
               => lcall.ret = <<248, 0>>

\* pure green converted on the 320x320 panel of a new implementation
C17_Witness ==
    /\ lcall.op = "rgb_to_bytes"
    /\ lcall.args = <<0, 255, 0>>
    /\ lcall.ret = <<7, 224>>
    /\ ~lcd._resolution_detected

RECURSIVE SumSizes(_)
SumSizes(plan) == IF plan = <<>> THEN 0 ELSE Head(plan).size + SumSizes(Tail(plan))

\* the plan: sizes from 1 to 65536 adding up to width * height * 2, and chunk i
\* (from 0) under the command _FRAME_CMD_BASE | (i << 24)
IsChunkPlan(plan, width, height) ==
    /\ SumSizes(plan) = width * height * 2
    /\ \A k \in 1..Len(plan) :
          /\ plan[k].size >= 1 /\ plan[k].size <= 65536
          /\ plan[k].cmd \div 16777216 = k - 1
          /\ plan[k].cmd % 16777216 = _FRAME_CMD_BASE

C19_OpenCloseAlternate ==
    /\ \A i \in 1..Len(tlog) :
          /\ tlog[i].call = IF i % 2 = 1 THEN "open" ELSE "close"
          /\ tlog[i].tid = (i + 1) \div 2
    /\ obj[1].transport # None <=> Len(tlog) % 2 = 1
    /\ obj[1].transport # None => obj[1].transport = tlog[Len(tlog)].tid
    /\ Len(transports) = (Len(tlog) + 1) \div 2
    /\ (last.op = "send" /\ last.objBefore[1].transport # None)
           => transports = last.trBefore /\ obj = last.objBefore
    /\ (last.op = "send" /\ last.objBefore[1].transport = None /\ last.exc # "ImportError")
           => /\ Len(transports) = Len(last.trBefore) + 1
              /\ transports[Len(transports)].calls = <<"open">>
    /\ (last.op = "close" /\ last.objBefore[1].transport # None)
           => /\ obj[1].transport = None
              /\ transports[last.objBefore[1].transport].calls = <<"open", "close">>
    /\ (last.op = "close" /\ last.objBefore[1].transport = None)
           => transports = last.trBefore /\ obj[1].transport = None

\* a send that reuses the second transport, the close of the first having raised
C19_Witness ==
    /\ last.op = "send" /\ last.exc = ""
    /\ last.objBefore[1].transport = 2
    /\ Len(tlog) = 3
    /\ transports[1].state = "open"

\* ---------------------------------------------------------------------------
\* Claims about media players (specification SpecPlayer)
\* ---------------------------------------------------------------------------
\* C20: on a player that holds at least one frame, next_frame moves current_frame one
\* frame on and returns that frame; from the last frame it goes to frame 0 when loop
\* is set, and when loop is not set it stays on the last frame and clears playing, so a
\* next_frame on a player stopped on its last frame leaves it stopped there.
C20_NextFrame ==
    (mcall.op = "next_frame" /\ Len(mcall.before.frames) >= 1) =>
        LET b == mcall.before
            last_frame == b.frame_count - 1
        IN
        /\ IF b.current_frame < last_frame
           THEN /\ player.current_frame = b.current_frame + 1
                /\ player.playing = b.playing
           ELSE IF b.loop
           THEN /\ player.current_frame = 0
                /\ player.playing = b.playing
           ELSE /\ player.current_frame = last_frame
                /\ ~player.playing
        /\ mcall.ret = player.frames[player.current_frame + 1]
        /\ (~b.loop /\ ~b.playing /\ b.current_frame = last_frame) => player = b
        /\ player.frames = b.frames /\ player.frame_count = b.frame_count
        /\ player.loop = b.loop

\* next_frame on a player without loop that an earlier next_frame stopped on the last
\* of its three frames
C20_Witness ==
    /\ mcall.op = "next_frame"
    /\ ~mcall.before.loop /\ ~mcall.before.playing
    /\ Len(player.frames) = 3
    /\ mcall.before.current_frame = 2
    /\ player.current_frame = 2

\* ---------------------------------------------------------------------------
\* Claims about Theme.zt files (specification SpecZt)
\* ---------------------------------------------------------------------------
\* C21: a Theme.zt whose first byte is not 0xDC is rejected with ValueError after
\* that one byte has been read, before the frame count, a timestamp or a frame is
\* read, and no player comes of it.
C21_BadMagicRejected ==
    (zt.file # <<>> /\ zt.file[1] # 220)
        => /\ zt.res.exc = "ValueError"
           /\ zt.res.nread = 1
           /\ zt.res.player = None

\* a well-formed file of three frames under the first byte 0xDD was refused
C21_Witness ==
    /\ Len(zt.file) > 40
    /\ zt.file[1] = 221
    /\ zt.res.exc = "ValueError"

\* C22: after a Theme.zt has been read without an exception, frame_count, the
\* number of timestamps, the number of frames and the number of delays are the same.
C22_CountsAgree ==
    (zt.file # <<>> /\ zt.res.exc = "")
        => LET p == zt.res.player IN
           /\ p.frame_count = Len(p.timestamps)
           /\ p.frame_count = Len(p.frames)
           /\ Len(p.delays) = p.frame_count

\* three frames were read
C22_Witness ==
    /\ zt.file # <<>>
    /\ zt.res.exc = ""
    /\ zt.res.player.frame_count = 3

\* C23: with N frames read, the delay of frame i < N-1 is timestamps[i+1] -
\* timestamps[i] or 1 if that is less than 1, the delay of the last frame is the
\* delay of the frame before it, it is 42 when N = 1, and every delay is at least 1.
C23_Delays ==
    (zt.file # <<>> /\ zt.res.exc = "")
        => LET p == zt.res.player
               N == Len(p.frames)
               ts == p.timestamps
           IN /\ \A i \in 1..(N - 1) :
                    p.delays[i] = IF ts[i + 1] - ts[i] < 1 THEN 1 ELSE ts[i + 1] - ts[i]
              /\ N >= 2 => p.delays[N] = p.delays[N - 1]
              /\ N = 1 => p.delays = <<42>>
              /\ \A i \in 1..N : p.delays[i] >= 1

\* three frames whose timestamps go 41, 30, 30: the differences -11 and 0 are
\* both raised to 1 and the last delay repeats it
C23_Witness ==
    /\ zt.file # <<>>
    /\ zt.res.exc = ""
    /\ zt.res.player.timestamps = <<41, 30, 30>>
    /\ zt.res.player.delays = <<1, 1, 1>>

\* ---------------------------------------------------------------------------
\* Claims about .tr theme files (specification SpecTheme)
\* ---------------------------------------------------------------------------
\* an export that returned, followed by an import that returned
RoundTripDone ==
    /\ theme.op = "export_import"
    /\ theme.exported = ""
    /\ theme.imp.exc = ""

\* C24: import_theme of the file written by export returns the exported
\* show_system_info, show_background, show_screenshot, direction, ui_mode, mode,
\* hide_screenshot_bg, screenshot_rect, show_mask and mask_center, and as many
\* overlay elements in the same order, each with the exported mode, mode_sub, x,
\* y, main_count, sub_count, font_name, font_style, color and text.
C24_FieldsRoundTrip ==
    RoundTripDone =>
        LET a == theme.args
            r == theme.imp.result
        IN /\ r.show_system_info = a.show_system_info
           /\ r.show_background = a.show_background
           /\ r.show_screenshot = a.show_screenshot
           /\ r.direction = a.direction
           /\ r.ui_mode = a.ui_mode
           /\ r.mode = a.mode
           /\ r.hide_screenshot_bg = a.hide_screenshot_bg
           /\ r.screenshot_rect = a.screenshot_rect
           /\ r.show_mask = a.show_mask
           /\ r.mask_center = a.mask_center
           /\ Len(r.elements) = Len(a.overlay_elements)
           /\ \A i \in 1..Len(r.elements) :
                 LET e == a.overlay_elements[i]
                     g == r.elements[i]
                 IN /\ g.mode = e.mode /\ g.mode_sub = e.mode_sub
                    /\ g.x = e.x /\ g.y = e.y
                    /\ g.main_count = e.main_count /\ g.sub_count = e.sub_count
                    /\ g.font_name = e.font_name
                    /\ g.font_style = e.font_style
                    /\ g.color = e.color
                    /\ g.text = e.text

\* C25: import_theme raises, and returns no theme record, for every file whose
\* first four bytes are not DD DC DD DC, files that begin with DC DC included.
C25_BadHeaderRaises ==
    (theme.op = "import" /\ Read(theme.file, 0, 4).data # _HEADER) => theme.imp.exc # ""

\* the 7-bit groups of a length prefix put back together, lowest group first
RECURSIVE OrOfGroups(_, _)
OrOfGroups(prefix, i) ==
    IF i > Len(prefix) THEN 0
    ELSE BitOr(Shl(BitAnd(prefix[i], 127), 7 * (i - 1)), OrOfGroups(prefix, i + 1))

\* the number of bytes of the UTF-8 form of the characters lo..hi of a string
RECURSIVE Utf8Length(_, _, _)
Utf8Length(s, lo, hi) ==
    IF lo > hi THEN 0
    ELSE IF lo = hi THEN Len(Utf8Char(s[lo]))
    ELSE LET mid == (lo + hi) \div 2
         IN Utf8Length(s, lo, mid) + Utf8Length(s, mid + 1, hi)

\* C26: for a string of UTF-8 length L (a string that holds no lone surrogate,
\* which has no UTF-8 form), _write_csharp_string emits a length prefix
\* whose bytes all have the high bit set but the last, which has it clear:
\* one byte equal to L when L < 128, more than one when L >= 128; the prefix decodes
\* to L as the OR of (byte & 0x7F) << (7 * position); and _read_csharp_string
\* applied to the output returns the string.
C26_CSharpString ==
    (theme.op = "string" /\ \A i \in 1..Len(theme.text) : ~IsSurrogate(theme.text[i])) =>
        LET L == Utf8Length(theme.text, 1, Len(theme.text))
            k == Len(theme.bytes) - L
            prefix == SubSeq(theme.bytes, 1, k)
        IN /\ k >= 1
           /\ \A i \in 1..(k - 1) : prefix[i] >= 128
           /\ prefix[k] < 128
           /\ L < 128 => prefix = <<L>>
           /\ L >= 128 => k > 1
           /\ OrOfGroups(prefix, 1) = L
           /\ theme.wrote = ""
           /\ theme.back.exc = ""
           /\ theme.back.val = theme.text

\* 300 bytes are written after the prefix AC 02 and read back
C26_Witness ==
    /\ theme.op = "string"
    /\ Len(theme.text) = 300
    /\ SubSeq(theme.bytes, 1, 2) = <<172, 2>>
    /\ theme.back.val = theme.text

\* the Theme.zt given to export is one that export embeds with n frames, n >= 1
EmbedsVideo(a) ==
    /\ a.background_image = None
    /\ a.theme_zt.exists
    /\ Len(a.theme_zt.data) >= 5
    /\ a.theme_zt.data[1] = 220
    /\ UnpackI32(a.theme_zt.data, 1) >= 1

\* C27: after export then import, has_mask is true, and 01.png written, exactly
\* when a mask image was exported; has_background is true, and 00.png written,
\* exactly when a background image was exported; has_video is true exactly when no
\* background image was exported and a Theme.zt of at least one frame was
\* embedded; has_background and has_video are never both true.
C27_ContentFlags ==
    (theme.op = "export_import" /\ theme.exported = "") =>
        LET a == theme.args
            r == theme.imp.result
            files == theme.imp.files
        IN /\ theme.imp.exc = ""
           /\ r.has_mask <=> a.mask_image # None
           /\ files.png01 # <<>> <=> a.mask_image # None
           /\ r.has_background <=> a.background_image # None
           /\ files.png00 # <<>> <=> a.background_image # None
           /\ r.has_video <=> EmbedsVideo(a)
           /\ ~(r.has_background /\ r.has_video)

\* C28: exporting a well-formed Theme.zt of N >= 1 frames with no background
\* image and importing the .tr writes a Theme.zt with the bytes of the original.
C28_VideoRoundTrip ==
    (/\ theme.op = "export_import"
     /\ EmbedsVideo(theme.args)
     /\ ThemeZtPlayer(theme.args.theme_zt.data).exc = ""
     /\ ThemeZtPlayer(theme.args.theme_zt.data).nread = Len(theme.args.theme_zt.data))
        => /\ theme.exported = ""
           /\ theme.imp.exc = ""
           /\ theme.imp.files.theme_zt = theme.args.theme_zt.data

\* a Theme.zt of MaxFrames frames went through a .tr and came back
C28_Witness ==
    /\ RoundTripDone
    /\ theme.imp.result.has_video
    /\ ThemeZtPlayer(theme.imp.files.theme_zt).exc = ""
    /\ ThemeZtPlayer(theme.imp.files.theme_zt).player.frame_count = MaxFrames
    /\ theme.imp.files.theme_zt = theme.args.theme_zt.data

\* ---------------------------------------------------------------------------
\* Claims about the SCSI driver (specification SpecScsi)
\* ---------------------------------------------------------------------------
\* C29: the handshake on a driver that is not initialized issues one poll read
\* (cmd 0xF5, size 0xE100) and then one init write (cmd 0x1F5, size 0xE100), in that
\* order, and marks the driver initialized; on an initialized driver it issues
\* no command at all.
C29_Handshake ==
    driver.last.op = "init_device" =>
        /\ driver.initialized
        /\ ~driver.last.was =>
              driver.issued = <<[op |-> "read", cmd |-> 245, size |-> 57600],
                                [op |-> "write", cmd |-> 501, size |-> 57600]>>
        /\ driver.last.was => driver.issued = <<>>

\* the handshake has run on a driver that was not initialized
C29_Witness ==
    /\ driver.last.op = "init_device"
    /\ ~driver.last.was
    /\ Len(driver.issued) = 2

\* C30: for cmd and size of 32 bits the command header has 20 bytes: cmd low byte
\* first at offset 0, eight zero bytes, size low byte first at offset 12, and at
\* offset 16 the IEEE CRC-32 of the first 16 bytes as an unsigned value, low byte
\* first. The CRC is told by its residue (the CRC of the 16 bytes followed by their
\* CRC is 0x2144DF1C) and, for the headers of the handshake, by its value.
C30_Header ==
    driver.last.op = "_build_header" =>
        LET h == driver.header.bytes IN
        /\ Len(h) = 20
        /\ UnpackLE32(h, 0) = driver.header.cmd
        /\ SubSeq(h, 5, 12) = <<0, 0, 0, 0, 0, 0, 0, 0>>
        /\ UnpackLE32(h, 12) = driver.header.size
        /\ \A i \in 17..20 : h[i] \in 0..255
        /\ _crc32(h) = <<28, 223, 68, 33>>
        /\ (driver.header.cmd = 245 /\ driver.header.size = 57600)
              => SubSeq(h, 17, 20) = <<57, 114, 89, 189>>
        /\ (driver.header.cmd = 501 /\ driver.header.size = 57600)
              => SubSeq(h, 17, 20) = <<209, 169, 162, 4>>

\* the header of the init command 0x1F5 with size 0xE100 has been built
C30_Witness ==
    /\ driver.last.op = "_build_header"
    /\ driver.header.cmd = 501
    /\ driver.header.size = 57600
    /\ SubSeq(driver.header.bytes, 1, 16) = <<245, 1, 0, 0, 0, 0, 0, 0, 0, 0, 0, 0, 0, 225, 0, 0>>

\* ---------------------------------------------------------------------------
\* Further claims about the sender cache (specification Spec) and about one
\* HidSender (specification SpecHid)
\* ---------------------------------------------------------------------------
\* C31 (as claimed): get_sender for a descriptor whose protocol is none of scsi,
\* hid, bulk and led_hid raises ValueError, and the cache, the senders and the
\* transports are after the call what they were before it.
C31_UnsupportedProtocolRaises ==
    (/\ last.op = "get_sender"
     /\ getattr(last.d, "protocol", "scsi") \notin Protocols)
        => /\ last.exc = "ValueError"
           /\ senders = last.before
           /\ obj = last.objBefore
           /\ transports = last.trBefore

\* C34 (as claimed): a sender that get_sender returns has the protocol of the
\* descriptor of the call (scsi for a descriptor without the attribute).
C34_ProtocolOfDescriptor ==
    (last.op = "get_sender" /\ last.exc = "")
        => protocol(obj[last.ret]) = getattr(last.d, "protocol", "scsi")

\* C32 (as claimed): a send in which transport.open() failed leaves the sender
\* without a transport, and a send that went through to send_image_to_hid_device
\* did so on a transport whose open succeeded.
C32_NoUnopenedTransport ==
    /\ (last.op = "send" /\ last.exc = "TransportOpenFailed")
           => obj[last.sid].transport = None
    /\ (last.op = "send" /\ last.exc = "")
           => /\ obj[last.sid].transport # None
              /\ transports[obj[last.sid].transport].state = "open"

\* ---------------------------------------------------------------------------
\* A further claim about BulkDevice (specification SpecBulk)
\* ---------------------------------------------------------------------------
\* C33 (as claimed): a send_frame call gets to write a frame header only when the
\* last handshake made since the device was opened succeeded, and no frame header
\* on the wire has width 0 and height 0.
C33_FrameAfterHandshake ==
    /\ (bcall.op = "send_frame" /\ bcall.exc = "") => bcall.synced
    /\ \A i \in 1..Len(wire) :
          IsHeader(wire[i]) =>
              ~(UnpackLE32(wire[i].bytes, 8) = 0 /\ UnpackLE32(wire[i].bytes, 12) = 0)

\* ---------------------------------------------------------------------------
\* A further claim about the media players (specification SpecPlayer)
\* ---------------------------------------------------------------------------
\* C35 (as claimed): on a player that was not closed, with any number of frames
\* and either loop setting, current_frame is within 0 .. max(frame_count - 1, 0)
\* after any calls of play, pause, stop, reset, next_frame and seek, and get_delay
\* returns a delay of at least 1 ms and raises nothing.
C35_CurrentFrameInRange ==
    Len(player.frames) = player.frame_count =>
        /\ 0 <= player.current_frame
        /\ player.current_frame <= Max(player.frame_count - 1, 0)
        /\ get_delay(player).exc = ""
        /\ get_delay(player).val >= 1
        /\ mcall.op = "get_delay" => mcall.exc = ""

\* ---------------------------------------------------------------------------
\* A further claim about .tr files (specification SpecTheme)
\* ---------------------------------------------------------------------------
\* the Theme.zt argument of an export is absent or names no file, names a file
\* whose first byte is not 0xDC, or names a Theme.zt with zero frames
NoVideoToEmbed(a) ==
    \/ ~a.theme_zt.exists
    \/ Read(a.theme_zt.data, 0, 1).data # <<220>>
    \/ (Len(a.theme_zt.data) >= 5 /\ UnpackI32(a.theme_zt.data, 1) = 0)

\* C36 (as claimed): for such a Theme.zt argument, with or without a background
\* image, export returns and import_theme of the file it wrote returns a record:
\* no read of it comes up short and no format error is raised.
C36_ExportComplete ==
    (theme.op = "export_import" /\ NoVideoToEmbed(theme.args))
        => /\ theme.exported = ""
           /\ theme.imp.exc = ""

\* ===========================================================================
\* Claims about the screen cast (specification SpecCast)
\* ===========================================================================

\* start() has returned False, or stop() has returned, and no call is in progress
CastReleased == cast.main = "idle" /\ cast.ret \in {"start_false", "stop"}

\* C37: after start() returned False or stop() returned, the object holds no
\* GStreamer pipeline, no PipeWire fd and no portal session, and grab_frame()
\* returns None, whatever the order of the portal responses and frame callbacks
C37_ReleasedAfterStop ==
    CastReleased =>
        /\ cast.o._pipeline = None
        /\ cast.o._pipewire_fd = None
        /\ ~HasPath(cast)
        /\ grab_frame(cast.o) = None

\* ===========================================================================
\* Claims about the preview downloads (specification SpecWeb)
\* ===========================================================================

\* the workers inside a download that the last load_themes call to return
\* started, or that decided on it after that call returned
Downloading == {t \in 1..Len(web.workers) :
                   /\ web.workers[t].pc = "download"
                   /\ \/ web.workers[t].gen = web.returned
                      \/ web.workers[t].req = web.returned}

\* C38: once a later load_themes call has returned, a worker started by an
\* earlier call decides on no further preview download (the one in progress
\* apart), and at most one worker is downloading
C38_PreviousWorkerCancelled ==
    /\ \A t \in 1..Len(web.workers) : web.workers[t].late = 0
    /\ web.main = "idle" => Cardinality(Downloading) <= 1

\* ---------------------------------------------------------------------------
\* Claims about concurrent use of the factory (specification SpecConc)
\* ---------------------------------------------------------------------------
\* the threads whose get_sender call has returned
Got == {t \in Threads : loc[t].ret # None}

\* C2 (as claimed): at most one frame is in flight per sender: no two threads are
\* inside the send of one and the same sender at the same time.
C2_OneFrameInFlight ==
    \A t1, t2 \in Threads :
        (t1 # t2 /\ pc[t1] = "sd_io" /\ pc[t2] = "sd_io")
            => loc[t1].ret # loc[t2].ret

\* C3 (as claimed): get_sender calls for one (vid, pid, path) return one and the same
\* instance, and no second sender is ever created for a (vid, pid, path).
C3_OneSenderPerKey ==
    /\ \A t1, t2 \in Got :
          Triple(loc[t1].d) = Triple(loc[t2].d) => loc[t1].ret = loc[t2].ret
    /\ \A i, j \in 1..Len(obj) : i # j => obj[i].forTriple # obj[j].forTriple

====
